---- MODULE Spec2Model ----
(***************************************************************************)
(* A model of the photo editor's adjustment pipeline and layer-mask        *)
(* compositor (src/photo-editor/index.tsx).                                *)
(*                                                                         *)
(* Representation.                                                         *)
(*  - A pixel is <<r, g, b, a>>, each channel in 0..255.                   *)
(*  - An image source (a data URL) is [kind, w, h, px]: kind "image" with  *)
(*    its decoded row-major pixels, "broken" for a source whose load       *)
(*    fires onerror, "null" for an absent source.                          *)
(*  - A canvas / ImageData is [w, h, px].                                  *)
(*  - JavaScript numbers are rendered in fixed point: a value v is the     *)
(*    integer v * FX, truncated toward minus infinity where a quotient is  *)
(*    not exact.  Math.cos, Math.pow and Math.sqrt are computed by the     *)
(*    approximations written out below.                                    *)
(***************************************************************************)
EXTENDS Integers, Sequences, FiniteSets, TLC

FX == 10 ^ 3

Range(f) == {f[k] : k \in DOMAIN f}

Min2(a, b) == IF a < b THEN a ELSE b
Max2(a, b) == IF a > b THEN a ELSE b
Min3(a, b, c) == Min2(a, Min2(b, c))
Max3(a, b, c) == Max2(a, Max2(b, c))
Abs(a) == IF a < 0 THEN 0 - a ELSE a

\* n / d rounded to the nearest integer, for n >= 0 and d > 0.
RoundDiv(n, d) == (2 * n + d) \div (2 * d)

\* a * b / FX without leaving 32 bits, for |a| * FX and |b| below 2^31 / FX.
MulFx(a, b) == (a \div FX) * b + ((a % FX) * b) \div FX

(***************************************************************************)
(* Canvas 2D compositing (the operations drawCanvas asks the canvas for).  *)
(***************************************************************************)
Transparent == <<0, 0, 0, 0>>
Black == <<0, 0, 0, 255>>
White == <<255, 255, 255, 255>>

NewCanvas(w, h) == [w |-> w, h |-> h, px |-> [i \in 1..(w * h) |-> Transparent]]

\* Porter-Duff: co = as*Fa*Cs + ab*Fb*Cb, ao = as*Fa + ab*Fb (Fa, Fb in 0..255).
Composite(cb, cs, Fa, Fb) ==
    LET den == cs[4] * Fa + cb[4] * Fb
        ch(k) == IF den = 0 THEN 0
                 ELSE RoundDiv(cs[4] * Fa * cs[k] + cb[4] * Fb * cb[k], den)
    IN  <<ch(1), ch(2), ch(3), RoundDiv(den, 255)>>

SourceOver(cb, cs) == Composite(cb, cs, 255, 255 - cs[4])

DestinationIn(cb, cs) == Composite(cb, cs, 0, cs[4])

Xor(cb, cs) == Composite(cb, cs, 255 - cb[4], 255 - cs[4])

\* The separable blend mode lighten, B(Cb, Cs) = max(Cb, Cs), composited
\* source-over: Cs' = (1 - ab)*Cs + ab*B(Cb, Cs).
Lighten(cb, cs) ==
    LET mix(k) == RoundDiv((255 - cb[4]) * cs[k] + cb[4] * Max2(cb[k], cs[k]), 255)
    IN  SourceOver(cb, <<mix(1), mix(2), mix(3), cs[4]>>)

CompositePixel(gco, cb, cs) ==
    CASE gco = "source-over"    -> SourceOver(cb, cs)
      [] gco = "destination-in" -> DestinationIn(cb, cs)
      [] gco = "xor"            -> Xor(cb, cs)
      [] gco = "lighten"        -> Lighten(cb, cs)

\* ctx.drawImage(img, 0, 0) under globalCompositeOperation gco: the image is
\* drawn at its natural size, so it is cut at the canvas edge and the canvas
\* outside the image is composited with a transparent source.
drawImage(dst, img, gco) ==
    [dst EXCEPT !.px = [i \in 1..(dst.w * dst.h) |->
        LET x == (i - 1) % dst.w
            y == (i - 1) \div dst.w
        IN  IF x < img.w /\ y < img.h
            THEN CompositePixel(gco, dst.px[i], img.px[y * img.w + x + 1])
            ELSE CompositePixel(gco, dst.px[i], Transparent)]]

\* ctx.fillStyle = colour; ctx.fillRect(0, 0, canvas.width, canvas.height)
fillRect(dst, colour, gco) ==
    [dst EXCEPT !.px = [i \in 1..(dst.w * dst.h) |->
        CompositePixel(gco, dst.px[i], colour)]]

(***************************************************************************)
(* The CSS filter string of getAdjustmentsCss, applied by the canvas to    *)
(* the source of drawImage: brightness, contrast, saturate, sepia, in that *)
(* order, each result stored in 8 bits.                                    *)
(***************************************************************************)
ClampRound(n, d) == IF n <= 0 THEN 0 ELSE Min2(255, RoundDiv(n, d))

\* brightness() with the percentage taken as the factor itself
cssBrightnessAsFactor(p, pct) ==
    <<ClampRound(p[1] * pct, 1), ClampRound(p[2] * pct, 1),
      ClampRound(p[3] * pct, 1), p[4]>>

cssBrightness(p, pct) ==
    <<ClampRound(p[1] * pct, 100), ClampRound(p[2] * pct, 100),
      ClampRound(p[3] * pct, 100), p[4]>>

cssContrast(p, pct) ==
    LET f(c) == ClampRound((2 * c - 255) * pct + 25500, 200)
    IN  <<f(p[1]), f(p[2]), f(p[3]), p[4]>>

cssSaturate(p, pct) ==
    LET D == 100000 IN
    <<ClampRound((21300 + 787 * pct) * p[1] + (71500 - 715 * pct) * p[2]
                 + (7200 - 72 * pct) * p[3], D),
      ClampRound((21300 - 213 * pct) * p[1] + (71500 + 285 * pct) * p[2]
                 + (7200 - 72 * pct) * p[3], D),
      ClampRound((21300 - 213 * pct) * p[1] + (71500 - 715 * pct) * p[2]
                 + (7200 + 928 * pct) * p[3], D),
      p[4]>>

cssSepia(p, pct) ==
    LET D == 100000
        q == 100 - Min2(100, pct)
    IN
    <<ClampRound((39300 + 607 * q) * p[1] + (76900 - 769 * q) * p[2]
                 + (18900 - 189 * q) * p[3], D),
      ClampRound((34900 - 349 * q) * p[1] + (68600 + 314 * q) * p[2]
                 + (16800 - 168 * q) * p[3], D),
      ClampRound((27200 - 272 * q) * p[1] + (53400 - 534 * q) * p[2]
                 + (13100 + 869 * q) * p[3], D),
      p[4]>>

\* adjustedCtx.filter = filterString; the filtered source image.
cssFilter(img, filters) ==
    [img EXCEPT !.px = [i \in 1..(img.w * img.h) |->
        cssSepia(cssSaturate(cssContrast(cssBrightness(img.px[i],
            filters.brightness), filters.contrast), filters.saturation),
            filters.sepia)]]

(***************************************************************************)
(* Numbers as the code stores and clamps them.                             *)
(***************************************************************************)
\* A store into a Uint8ClampedArray: clamp to [0,255], round half to even.
ToUint8Clamp(v) ==
    IF v <= 0 THEN 0
    ELSE IF v >= 255 * FX THEN 255
    ELSE LET q == v \div FX
             r == v % FX
         IN  IF 2 * r > FX THEN q + 1
             ELSE IF 2 * r < FX THEN q
             ELSE IF q % 2 = 0 THEN q ELSE q + 1

\* Math.max(0, Math.min(255, v))
clamp255NoClamp(v) == v

clamp255(v) == Max2(0, Min2(255 * FX, v))

\* Math.max(0, Math.min(1, v))
clamp01(v) == Max2(0, Min2(FX, v))

\* Math.pow(2, amount / 100.0): the values at the multiples of 25, joined
\* by straight lines.
Pow2Table == <<500, 595, 707, 841, 1000, 1189, 1414, 1682, 2000>>

Pow2Fx(amount) ==
    LET k == (amount + 100) \div 25
        r == (amount + 100) % 25
    IN  IF r = 0 THEN Pow2Table[k + 1]
        ELSE Pow2Table[k + 1] + ((Pow2Table[k + 2] - Pow2Table[k + 1]) * r) \div 25

\* Math.cos(x * Math.PI) for x in [0, 1] (Bhaskara's rational approximation,
\* within 0.002 of the cosine).
CosPiFx(x) ==
    LET half(u) == ((FX - 4 * ((u * u) \div FX)) * FX) \div (FX + (u * u) \div FX)
    IN  IF 2 * x <= FX THEN half(x) ELSE 0 - half(FX - x)

(***************************************************************************)
(* rgbToHsl, hslToRgb.  Hue is in thousandths of a degree, saturation and  *)
(* lightness in thousandths.                                               *)
(***************************************************************************)
rgbToHsl(r, g, b) ==
    LET max == Max3(r, g, b)
        min == Min3(r, g, b)
        d == max - min
        l == ((max + min) * FX) \div 510
        s == IF max = min THEN 0
             ELSE IF max + min > 255 THEN (d * FX) \div (510 - max - min)
             ELSE (d * FX) \div (max + min)
        h == IF max = min THEN 0
             ELSE IF max = r
                  THEN (60 * (g - b) * FX) \div d + (IF g < b THEN 360 * FX ELSE 0)
             ELSE IF max = g
                  THEN (60 * (b - r) * FX) \div d + 120 * FX
             ELSE (60 * (r - g) * FX) \div d + 240 * FX
    IN  <<h, s, l>>

\* hue2rgb(p, q, t) with t in thousandths of a degree instead of turns
hue2rgb(p, q, t0) ==
    LET t == IF t0 < 0 THEN t0 + 360 * FX
             ELSE IF t0 > 360 * FX THEN t0 - 360 * FX ELSE t0
    IN  IF t < 60 * FX THEN p + ((q - p) * t) \div (60 * FX)
        ELSE IF t < 180 * FX THEN q
        ELSE IF t < 240 * FX THEN p + ((q - p) * (240 * FX - t)) \div (60 * FX)
        ELSE p

\* The three channels times 255, in fixed point.
hslToRgb(h, s, l) ==
    IF s = 0 THEN <<l * 255, l * 255, l * 255>>
    ELSE LET q == IF 2 * l < FX THEN MulFx(l, FX + s) ELSE l + s - MulFx(l, s)
             p == 2 * l - q
         IN  <<hue2rgb(p, q, h + 120 * FX) * 255,
               hue2rgb(p, q, h) * 255,
               hue2rgb(p, q, h - 120 * FX) * 255>>

(***************************************************************************)
(* Scalar adjustment operators.  Each maps an ImageData to an ImageData    *)
(* and leaves data[i + 3] alone.                                           *)
(***************************************************************************)
\* A mutation of applyExposure that scales all four channels
applyExposureAllChannels(imageData, amount) ==
    IF amount = 0 THEN imageData
    ELSE LET multiplier == Pow2Fx(amount) IN
         [imageData EXCEPT !.px = [i \in 1..Len(imageData.px) |->
            [c \in 1..4 |-> ToUint8Clamp(clamp255(imageData.px[i][c] * multiplier))]]]

applyExposure(imageData, amount) ==
    IF amount = 0 THEN imageData
    ELSE LET multiplier == Pow2Fx(amount) IN
         [imageData EXCEPT !.px = [i \in 1..Len(imageData.px) |->
            LET p == imageData.px[i] IN
            <<ToUint8Clamp(clamp255(p[1] * multiplier)),
              ToUint8Clamp(clamp255(p[2] * multiplier)),
              ToUint8Clamp(clamp255(p[3] * multiplier)), p[4]>>]]

\* A mutation of applyTemperature that shifts by the whole slider value
applyTemperatureFullShift(imageData, temperature) ==
    LET amount == temperature * FX IN
    IF amount = 0 THEN imageData
    ELSE [imageData EXCEPT !.px = [i \in 1..Len(imageData.px) |->
            LET p == imageData.px[i] IN
            <<ToUint8Clamp(clamp255(p[1] * FX + amount)), p[2],
              ToUint8Clamp(clamp255(p[3] * FX - amount)), p[4]>>]]

applyTemperature(imageData, temperature) ==
    LET amount == (temperature * FX) \div 2 IN
    IF amount = 0 THEN imageData
    ELSE [imageData EXCEPT !.px = [i \in 1..Len(imageData.px) |->
            LET p == imageData.px[i] IN
            <<ToUint8Clamp(clamp255(p[1] * FX + amount)), p[2],
              ToUint8Clamp(clamp255(p[3] * FX - amount)), p[4]>>]]

applyVibrance(imageData, amount) ==
    IF amount = 0 THEN imageData
    ELSE [imageData EXCEPT !.px = [i \in 1..Len(imageData.px) |->
            LET p == imageData.px[i]
                max == Max3(p[1], p[2], p[3])
                \* sat = |max - avg| = S / 3;  boost = (adjust/255) * (1 - sat/128)
                S == Abs(3 * max - (p[1] + p[2] + p[3]))
                sign == 3 * amount * (384 - S)
                boost == (sign * FX) \div (2 * 255 * 384)
            IN  IF sign <= 0 /\ amount > 0 THEN p
                ELSE IF sign >= 0 /\ amount < 0 THEN p
                ELSE <<ToUint8Clamp(clamp255(p[1] * FX + (max - p[1]) * boost)),
                       ToUint8Clamp(clamp255(p[2] * FX + (max - p[2]) * boost)),
                       ToUint8Clamp(clamp255(p[3] * FX + (max - p[3]) * boost)),
                       p[4]>>]]

applyDehaze(imageData, amount) ==
    IF amount = 0 THEN imageData
    ELSE [imageData EXCEPT !.px = [i \in 1..Len(imageData.px) |->
            LET p == imageData.px[i]
                ratio == Min3((p[1] * FX) \div 220, (p[2] * FX) \div 220,
                              (p[3] * FX) \div 230)
                transmission == FX - (amount * ratio) \div 100
                t == Max2(transmission, FX \div 10)
            IN  <<ToUint8Clamp(clamp255(((p[1] - 220) * FX * FX) \div t + 220 * FX)),
                  ToUint8Clamp(clamp255(((p[2] - 220) * FX * FX) \div t + 220 * FX)),
                  ToUint8Clamp(clamp255(((p[3] - 230) * FX * FX) \div t + 230 * FX)),
                  p[4]>>]]

applyHighlightsShadows(imageData, highlights, shadows) ==
    IF highlights = 0 /\ shadows = 0 THEN imageData
    ELSE [imageData EXCEPT !.px = [i \in 1..Len(imageData.px) |->
            LET p == imageData.px[i]
                hsl == rgbToHsl(p[1], p[2], p[3])
                l == hsl[3]
                shadow_mask == IF 2 * l < FX
                               THEN MulFx(CosPiFx(l), CosPiFx(l)) ELSE 0
                shadow_boost == (shadows * shadow_mask) \div 100
                highlight_mask == IF 2 * l > FX
                                  THEN MulFx(CosPiFx(FX - l), CosPiFx(FX - l)) ELSE 0
                highlight_boost == (highlights * highlight_mask) \div 100
                new_l == clamp01(l + shadow_boost + highlight_boost)
                rgb == hslToRgb(hsl[1], hsl[2], new_l)
            IN  <<ToUint8Clamp(rgb[1]), ToUint8Clamp(rgb[2]), ToUint8Clamp(rgb[3]),
                  p[4]>>]]

applyWhitesBlacks(imageData, whites, blacks) ==
    IF whites = 0 /\ blacks = 0 THEN imageData
    ELSE [imageData EXCEPT !.px = [i \in 1..Len(imageData.px) |->
            LET p == imageData.px[i]
                luma == (p[1] * 299 + p[2] * 587 + p[3] * 114) \div 255
                white255 == (whites * MulFx(luma, luma) * 255) \div 100
                black255 == (blacks * MulFx(FX - luma, FX - luma) * 255) \div 100
                w(c) == IF whites # 0 THEN clamp255(c * FX + white255) ELSE c * FX
                k(v) == IF blacks # 0 THEN clamp255(v - black255) ELSE v
            IN  <<ToUint8Clamp(k(w(p[1]))), ToUint8Clamp(k(w(p[2]))),
                  ToUint8Clamp(k(w(p[3]))), p[4]>>]]

\* A mutation of applySharpen that convolves the buffer it is writing: pixel i
\* of px is replaced, row by row, from the neighbours as they are by then
RECURSIVE sharpenInPlaceFrom(_, _, _, _, _)
sharpenInPlaceFrom(px, w, h, strength, i) ==
    IF i > Len(px) THEN px
    ELSE LET x == (i - 1) % w
             y == (i - 1) \div w
             total(c) == px[i][c] * (FX + 4 * strength)
                         - strength * (px[i - w][c] + px[i - 1][c]
                                       + px[i + 1][c] + px[i + w][c])
         IN  sharpenInPlaceFrom(
                 IF x >= 1 /\ x < w - 1 /\ y >= 1 /\ y < h - 1
                 THEN [px EXCEPT ![i] =
                         <<ToUint8Clamp(clamp255(total(1))), ToUint8Clamp(clamp255(total(2))),
                           ToUint8Clamp(clamp255(total(3))), px[i][4]>>]
                 ELSE px,
                 w, h, strength, i + 1)

applySharpenInPlace(imageData, amount) ==
    IF amount = 0 THEN imageData
    ELSE [imageData EXCEPT !.px =
            sharpenInPlaceFrom(imageData.px, imageData.w, imageData.h,
                               (amount * FX) \div 100, 1)]

applySharpen(imageData, amount) ==
    LET strength == (amount * FX) \div 100
        w == imageData.w
        h == imageData.h
        src == imageData.px
    IN  IF strength = 0 THEN imageData
        ELSE [imageData EXCEPT !.px = [i \in 1..Len(src) |->
            LET x == (i - 1) % w
                y == (i - 1) \div w
                total(c) == src[i][c] * (FX + 4 * strength)
                            - strength * (src[i - w][c] + src[i - 1][c]
                                          + src[i + 1][c] + src[i + w][c])
            IN  IF x >= 1 /\ x < w - 1 /\ y >= 1 /\ y < h - 1
                THEN <<ToUint8Clamp(clamp255(total(1))), ToUint8Clamp(clamp255(total(2))),
                       ToUint8Clamp(clamp255(total(3))), src[i][4]>>
                ELSE src[i]]]

\* A mutation of grainNoise that leaves out the centring of Math.random()
grainNoiseUncentred(amount, r) == (r * (amount * 2550)) \div FX

\* (Math.random() - 0.5) * strength, strength = amount * 2.55, in thousandths;
\* r is what Math.random() returned, in [0, FX)
grainNoise(amount, r) == ((r - FX \div 2) * (amount * 2550)) \div FX

\* Math.random() is drawn per pixel: random[i] in [0, FX).
applyGrain(imageData, amount, random) ==
    IF amount = 0 THEN imageData
    ELSE [imageData EXCEPT !.px = [i \in 1..Len(imageData.px) |->
            LET p == imageData.px[i]
                noise == grainNoise(amount, random[i])
            IN  <<ToUint8Clamp(clamp255(p[1] * FX + noise)),
                  ToUint8Clamp(clamp255(p[2] * FX + noise)),
                  ToUint8Clamp(clamp255(p[3] * FX + noise)), p[4]>>]]

(***************************************************************************)
(* Selective HSL.                                                          *)
(***************************************************************************)
HSL_RANGES ==
    << [color |-> "red",     center |-> 0,   range |-> 90],
       [color |-> "orange",  center |-> 30,  range |-> 90],
       [color |-> "yellow",  center |-> 60,  range |-> 90],
       [color |-> "green",   center |-> 120, range |-> 150],
       [color |-> "aqua",    center |-> 180, range |-> 90],
       [color |-> "blue",    center |-> 240, range |-> 150],
       [color |-> "purple",  center |-> 285, range |-> 120],
       [color |-> "magenta", center |-> 330, range |-> 90] >>

HslColors == {HSL_RANGES[k].color : k \in 1..Len(HSL_RANGES)}

\* ((cos(dist / half * PI) + 1) / 2), for dist < half (thousandths of a degree)
raisedCosine(dist, half) == (CosPiFx((dist * FX) \div half) + FX) \div 2

\* Math.sqrt(v) and Math.pow(v, 1.5), v in thousandths
RECURSIVE SqrtSearch(_, _, _)
SqrtSearch(n, lo, hi) ==
    IF lo >= hi THEN lo
    ELSE LET mid == (lo + hi + 1) \div 2
         IN  IF mid * mid <= n THEN SqrtSearch(n, mid, hi)
             ELSE SqrtSearch(n, lo, mid - 1)

SqrtFx(v) == SqrtSearch(v * FX, 0, 46340)

Pow15Fx(v) == MulFx(v, SqrtFx(v))

\* The loop over Object.entries(HSL_RANGES): the totals after the first k
\* bands, <<totalHueChange, totalSatChange, totalLumChange, totalInfluence>>.
RECURSIVE hslTotals(_, _, _)
hslTotals(hslAdjustments, h, k) ==
    IF k = 0 THEN <<0, 0, 0, 0>>
    ELSE LET prev == hslTotals(hslAdjustments, h, k - 1)
             band == HSL_RANGES[k]
             adj == hslAdjustments[band.color]
             diff == Abs(h - band.center * FX)
             dist == Min2(diff, 360 * FX - diff)
             half == (band.range * FX) \div 2
             influence == IF dist < half
                          THEN MulFx(raisedCosine(dist, half), raisedCosine(dist, half))
                          ELSE 0
         IN  IF adj.h = 0 /\ adj.s = 0 /\ adj.l = 0 THEN prev
             ELSE IF influence > 0
             THEN <<prev[1] + (adj.h * 180 * influence) \div 100,
                    prev[2] + (adj.s * influence) \div 100,
                    prev[3] + (adj.l * influence) \div 100,
                    prev[4] + influence>>
             ELSE prev

applyHsl(imageData, hslAdjustments) ==
    [imageData EXCEPT !.px = [i \in 1..Len(imageData.px) |->
        LET p == imageData.px[i]
            hsl == rgbToHsl(p[1], p[2], p[3])
            tot == hslTotals(hslAdjustments, hsl[1], Len(HSL_RANGES))
            norm(v) == IF tot[4] > FX THEN (v * FX) \div tot[4] ELSE v
            h == (hsl[1] + norm(tot[1]) + 360 * FX) % (360 * FX)
            s == clamp01(hsl[2] + norm(tot[2]))
            l == clamp01(hsl[3] + norm(tot[3]))
            rgb == hslToRgb(h, s, l)
        IN  <<ToUint8Clamp(rgb[1]), ToUint8Clamp(rgb[2]), ToUint8Clamp(rgb[3]), p[4]>>]]

(***************************************************************************)
(* Haze: glow map, separable box blur, composite.                          *)
(***************************************************************************)
RECURSIVE SumFn(_, _, _)
SumFn(f, lo, hi) == IF lo > hi THEN 0 ELSE f[lo] + SumFn(f, lo + 1, hi)

\* One pass of boxBlur over pixel sequence src (w by h): horizontal when
\* horizontal is TRUE, else vertical; every average is stored in 8 bits.
blurPass(src, w, h, r, horizontal) ==
    [i \in 1..(w * h) |->
        LET x == (i - 1) % w
            y == (i - 1) \div w
            lo == IF horizontal THEN Max2(0, x - r) ELSE Max2(0, y - r)
            hi == IF horizontal THEN Min2(w - 1, x + r) ELSE Min2(h - 1, y + r)
            count == hi - lo + 1
            at(j) == IF horizontal THEN src[y * w + j + 1] ELSE src[j * w + x + 1]
            avg(c) == ToUint8Clamp((SumFn([j \in lo..hi |-> at(j)[c]], lo, hi) * FX)
                                   \div count)
        IN  <<avg(1), avg(2), avg(3), avg(4)>>]

boxBlur(src, w, h, r) == blurPass(blurPass(src, w, h, r, TRUE), w, h, r, FALSE)

applyHaze(imageData, amount, spread) ==
    IF amount = 0 THEN imageData
    ELSE
    LET w == imageData.w
        h == imageData.h
        data == imageData.px
        warmth == ((spread - 50) * FX) \div 50
        hazeR == IF warmth > 0 THEN Min2(255 * FX, 230 * FX + 25 * warmth)
                 ELSE Max2(0, 230 * FX + 25 * warmth)
        hazeG == IF warmth > 0 THEN Min2(255 * FX, 230 * FX + 10 * warmth)
                 ELSE Max2(0, 230 * FX + 5 * warmth)
        hazeB == IF warmth > 0 THEN Max2(0, 230 * FX - 25 * warmth)
                 ELSE Min2(255 * FX, 230 * FX - 40 * warmth)
        glowMap == [i \in 1..Len(data) |->
            LET luma == data[i][1] * 299 + data[i][2] * 587 + data[i][3] * 114
            IN  <<ToUint8Clamp(hazeR), ToUint8Clamp(hazeG), ToUint8Clamp(hazeB),
                  ToUint8Clamp(MulFx(luma, luma) \div 255)>>]
        blurRadius == Max2(1, (amount * Min2(w, h) * 5) \div 10000)
        blurredGlowMap == boxBlur(glowMap, w, h, blurRadius)
    IN  [imageData EXCEPT !.px = [i \in 1..Len(data) |->
            LET blend == (blurredGlowMap[i][4] * amount * FX) \div (255 * 100)
                mix(c) == ToUint8Clamp(data[i][c] * (FX - blend)
                                       + blurredGlowMap[i][c] * blend)
            IN  <<mix(1), mix(2), mix(3), data[i][4]>>]]

(***************************************************************************)
(* Tone curves.  A curve is a sequence of [x, y]; a LUT is a function on   *)
(* 0..255 whose values are fixed-point numbers.                            *)
(***************************************************************************)
RECURSIVE sortedSeq(_)
sortedSeq(S) ==
    IF S = {} THEN << >>
    ELSE LET m == CHOOSE v \in S : \A u \in S : v <= u
         IN  <<m>> \o sortedSeq(S \ {m})

\* A mutation of uniquePoints that keeps the first y given for an x
uniquePointsFirstWins(points) ==
    LET xs == sortedSeq({points[k].x : k \in 1..Len(points)})
        first(x) == CHOOSE k \in 1..Len(points) :
                       /\ points[k].x = x
                       /\ \A j \in 1..(k - 1) : points[j].x # x
    IN  [k \in 1..Len(xs) |-> [x |-> xs[k], y |-> points[first(xs[k])].y]]

\* pointMap.set(p.x, p.y) for each point in turn, then the entries sorted by x
uniquePoints(points) ==
    LET xs == sortedSeq({points[k].x : k \in 1..Len(points)})
        last(x) == CHOOSE k \in 1..Len(points) :
                      /\ points[k].x = x
                      /\ \A j \in (k + 1)..Len(points) : points[j].x # x
    IN  [k \in 1..Len(xs) |-> [x |-> xs[k], y |-> points[last(xs[k])].y]]

\* Slopes (delta, m) are kept in millionths.
\* delta[i] of the segment from point i to point i + 1
lutDelta(up, i) ==
    LET dx == up[i + 1].x - up[i].x
    IN  IF dx <= 0 THEN 0 ELSE ((up[i + 1].y - up[i].y) * FX * FX) \div dx

\* Math.sqrt(a * a + b * b)
RECURSIVE HypFx(_, _)
HypFx(a, b) ==
    IF Max2(Abs(a), Abs(b)) <= 30000 THEN SqrtSearch(a * a + b * b, 0, 46340)
    ELSE 10 * HypFx(Abs(a) \div 10, Abs(b) \div 10)

\* a / b in thousandths, for 0 <= a <= b
RECURSIVE RatioFx(_, _)
RatioFx(a, b) ==
    IF b >= 2 * FX * FX THEN RatioFx(a \div 10, b \div 10) ELSE (a * FX) \div b

\* A mutation of lutTangents that leaves every tangent at zero
lutTangentsFlat(up, k) == [i \in 1..Len(up) |-> 0]

\* The tangents m after the Fritsch-Carlson loop has handled segments 1..k.
\* alpha < 0 is read off the signs of m and delta, and hyp > 3 and
\* tau = 3 / hyp off sqrt(m[k]^2 + m[k+1]^2) and 3 * |delta|.
RECURSIVE lutTangents(_, _)
lutTangents(up, k) ==
    LET n == Len(up) IN
    IF k = 0
    THEN [i \in 1..n |->
            IF i = n THEN lutDelta(up, n - 1)
            ELSE IF i = 1 THEN lutDelta(up, 1)
            ELSE (lutDelta(up, i - 1) + lutDelta(up, i)) \div 2]
    ELSE LET m == lutTangents(up, k - 1)
             delta == lutDelta(up, k)
             negative(v) == (v < 0 /\ delta > 0) \/ (v > 0 /\ delta < 0)
         IN  IF delta = 0 THEN [m EXCEPT ![k] = 0, ![k + 1] = 0]
             ELSE LET ma == IF negative(m[k]) THEN 0 ELSE m[k]
                      mb == IF negative(m[k + 1]) THEN 0 ELSE m[k + 1]
                      hypDelta == HypFx(m[k], m[k + 1])
                      tau == RatioFx(3 * Abs(delta), hypDelta)
                  IN  IF hypDelta > 3 * Abs(delta)
                      THEN [m EXCEPT ![k] = MulFx(ma, tau), ![k + 1] = MulFx(mb, tau)]
                      ELSE [m EXCEPT ![k] = ma, ![k + 1] = mb]

\* pointIndex when the evaluation loop reaches i
lutPointIndex(up, i) ==
    CHOOSE k \in 1..(Len(up) - 1) :
        /\ k = Len(up) - 1 \/ i <= up[k + 1].x
        /\ \A j \in 1..(k - 1) : i > up[j + 1].x

\* A mutation of lutVal with the h10 weight t^3 - t^2 + t
lutValWrongBasis(up, i) ==
    LET m == lutTangents(up, Len(up) - 1)
        k == lutPointIndex(up, i)
        h == up[k + 1].x - up[k].x
        u == i - up[k].x
        y0 == up[k].y * FX
        y1 == up[k + 1].y * FX
        m0 == MulFx(m[k], h)
        m1 == MulFx(m[k + 1], h)
        c2 == 3 * (y1 - y0) - m0 - m1
        c3 == 2 * (y0 - y1) + m0 + m1
        times(c) == (c * u) \div h
    IN  IF h > 0 THEN y0 + times(m0 + times(c2 + times(c3))) ELSE y0

\* val of the evaluation loop at i, before it is clamped.  The cubic
\* h00*y0 + h10*m0 + h01*y1 + h11*m1 is evaluated in its nested form
\* y0 + t*(m0 + t*(c2 + t*c3)), with t = (i - x[pointIndex]) / h.
lutVal(up, i) ==
    LET m == lutTangents(up, Len(up) - 1)
        k == lutPointIndex(up, i)
        h == up[k + 1].x - up[k].x
        u == i - up[k].x
        y0 == up[k].y * FX
        y1 == up[k + 1].y * FX
        m0 == MulFx(m[k], h)
        m1 == MulFx(m[k + 1], h)
        c2 == 3 * (y1 - y0) - 2 * m0 - m1
        c3 == 2 * (y0 - y1) + m0 + m1
        times(c) == (c * u) \div h
    IN  IF h > 0 THEN y0 + times(m0 + times(c2 + times(c3))) ELSE y0

createLutFromPoints(points) ==
    LET up == uniquePoints(points)
        n == Len(up)
    IN  [i \in 0..255 |->
            IF n = 0 THEN i * FX
            ELSE IF n = 1 THEN clamp255(up[1].y * FX)
            ELSE IF i = 255 THEN up[n].y * FX
            ELSE clamp255(lutVal(up, i))]

\* The entries of the table are doubles.  The evaluation loop computes
\* t = i / 255, t2, t3, the four basis values and their weighted sum in
\* IEEE-754 double arithmetic, each operation rounded; for the default curve
\* the exact sum is i, and the computed one is i for 135 entries, below i for
\* the entries of defaultLutBelow and above i for those of defaultLutAbove,
\* by at most 9e-14.  The thousandths of createLutFromPoints cannot hold such
\* a difference, so its sign is kept beside the table.
defaultLutBelow ==
    {1, 2, 8, 15, 16, 21, 23, 26, 38, 44, 69, 87, 89, 92, 99, 104, 107,
     109, 117, 118, 119, 120, 121, 123, 128, 129, 134, 135, 137, 138, 144,
     151, 152, 154, 159, 161, 163, 178, 180, 193, 194, 201, 202, 203, 205,
     209, 211, 215, 217, 218, 219, 220, 223, 225, 227, 231, 233, 234, 235,
     237, 238, 240, 242, 246, 247, 252, 253}

defaultLutAbove ==
    {3, 29, 33, 45, 47, 50, 51, 52, 53, 55, 61, 63, 66, 70, 74, 75, 82, 90,
     91, 94, 98, 102, 105, 111, 113, 114, 115, 122, 125, 127, 143, 145,
     153, 158, 164, 166, 167, 173, 182, 186, 199, 200, 206, 210, 226, 230,
     232, 236, 239, 244, 245, 249, 251, 254}

\* The sign of (entry i as computed) - (entry i as createLutFromPoints above
\* has it).  Only the default curve's table is followed to the last place;
\* other tables are taken as exact.
lutRoundingError(points, i) ==
    IF uniquePoints(points) # <<[x |-> 0, y |-> 0], [x |-> 255, y |-> 255]>> THEN 0
    ELSE IF i \in defaultLutBelow THEN -1
    ELSE IF i \in defaultLutAbove THEN 1
    ELSE 0

BAYER_MATRIX_8X8 ==
    << << 0, 32,  8, 40,  2, 34, 10, 42>>,
       <<48, 16, 56, 24, 50, 18, 58, 26>>,
       <<12, 44,  4, 36, 14, 46,  6, 38>>,
       <<60, 28, 52, 20, 62, 30, 54, 22>>,
       << 3, 35, 11, 43,  1, 33,  9, 41>>,
       <<51, 19, 59, 27, 49, 17, 57, 25>>,
       <<15, 47,  7, 39, 13, 45,  5, 37>>,
       <<63, 31, 55, 23, 61, 29, 53, 21>> >>

isDefault(c) ==
    Len(c) = 2 /\ c[1].x = 0 /\ c[1].y = 0 /\ c[2].x = 255 /\ c[2].y = 255

\* Math.round(Math.max(0, Math.min(255, v)))
roundIndex(v) == (Max2(0, Min2(255 * FX, v)) + FX \div 2) \div FX

\* Math.round(Math.max(0, Math.min(255, v))) of a double that lies a last
\* place below (error < 0) or above (error > 0) the thousandths v.
\* Math.round takes a half up, so a v on a half is rounded down when the
\* double is below it.
roundIndexOfDouble(v, error) ==
    LET clamped == Max2(0, Min2(255 * FX, v))
    IN  IF error < 0 /\ (clamped + FX \div 2) % FX = 0
        THEN (clamped + FX \div 2) \div FX - 1
        ELSE roundIndex(v)

\* The hue weight of a channel curve centred at `center` degrees
hueInfluence(h, center, channelIsDefault) ==
    LET diff == Abs(h - center * FX)
        dist == Min2(diff, 360 * FX - diff)
    IN  IF ~channelIsDefault /\ dist < 90 * FX
        THEN Pow15Fx(raisedCosine(dist, 90 * FX))
        ELSE 0

applyCurves(imageData, curves) ==
    LET width == imageData.w
        lutRgb == createLutFromPoints(curves.rgb)
        lutR == createLutFromPoints(curves.red)
        lutG == createLutFromPoints(curves.green)
        lutB == createLutFromPoints(curves.blue)
        isRedDefault == isDefault(curves.red)
        isGreenDefault == isDefault(curves.green)
        isBlueDefault == isDefault(curves.blue)
        needsHueMasking == ~isRedDefault \/ ~isGreenDefault \/ ~isBlueDefault
    IN  [imageData EXCEPT !.px = [i \in 1..Len(imageData.px) |->
            LET p == imageData.px[i]
                x == (i - 1) % width
                y == (i - 1) \div width
                dither == (BAYER_MATRIX_8X8[(y % 8) + 1][(x % 8) + 1] * FX) \div 64
                          - FX \div 2
                hs == rgbToHsl(p[1], p[2], p[3])
                blend(c, lut, influence) ==
                    c * (FX - influence) + MulFx(lut[roundIndex(c * FX + dither)], influence)
                processed ==
                    IF needsHueMasking
                    THEN IF hs[2] > 50
                         THEN <<blend(p[1], lutR, hueInfluence(hs[1], 0, isRedDefault)),
                                blend(p[2], lutG, hueInfluence(hs[1], 120, isGreenDefault)),
                                blend(p[3], lutB, hueInfluence(hs[1], 240, isBlueDefault))>>
                         ELSE <<p[1] * FX, p[2] * FX, p[3] * FX>>
                    ELSE <<lutR[roundIndex(p[1] * FX + dither)],
                           lutG[roundIndex(p[2] * FX + dither)],
                           lutB[roundIndex(p[3] * FX + dither)]>>
                \* r_processed is r_in or a blend with a table taken as exact
                \* under hue masking, and an entry of a default table without
                error(c, channel) ==
                    IF needsHueMasking THEN 0
                    ELSE lutRoundingError(channel, roundIndex(p[c] * FX + dither))
                final_idx(c, channel) ==
                    roundIndexOfDouble(processed[c] + dither, error(c, channel))
            IN  <<ToUint8Clamp(lutRgb[final_idx(1, curves.red)]),
                  ToUint8Clamp(lutRgb[final_idx(2, curves.green)]),
                  ToUint8Clamp(lutRgb[final_idx(3, curves.blue)]), p[4]>>]]

(***************************************************************************)
(* Adjustments and their identity values.                                  *)
(***************************************************************************)
initialFilters ==
    [brightness |-> 100, contrast |-> 100, saturation |-> 100, sepia |-> 0,
     exposure |-> 0, highlights |-> 0, shadows |-> 0, whites |-> 0, blacks |-> 0,
     temperature |-> 0, vibrance |-> 0, sharpen |-> 0, dehaze |-> 0, grain |-> 0,
     haze |-> 0, hazeSpread |-> 50]

initialHSL == [c \in HslColors |-> [h |-> 0, s |-> 0, l |-> 0]]

initialCurve == <<[x |-> 0, y |-> 0], [x |-> 255, y |-> 255]>>

initialCurves ==
    [rgb |-> initialCurve, red |-> initialCurve, green |-> initialCurve,
     blue |-> initialCurve]

initialAdjustments ==
    [filters |-> initialFilters, hsl |-> initialHSL, curves |-> initialCurves]

curvesAreDefault(curves) ==
    isDefault(curves.rgb) /\ isDefault(curves.red) /\ isDefault(curves.green)
        /\ isDefault(curves.blue)

\* Object.values(hsl).some(c => c.h !== 0 || c.s !== 0 || c.l !== 0)
hslIsEdited(hsl) == \E c \in HslColors : hsl[c].h # 0 \/ hsl[c].s # 0 \/ hsl[c].l # 0

\* Object.keys(pixelFilters): the keys of filters after the four CSS ones
pixelFilterKeys ==
    <<"exposure", "highlights", "shadows", "whites", "blacks", "temperature",
      "vibrance", "sharpen", "dehaze", "grain", "haze", "hazeSpread">>

\* The gate of getAdjustmentsCss without its curves and hsl disjuncts
needsPixelManipulationFiltersOnly(adjustments) ==
    LET filters == adjustments.filters
        find(v) == pixelFilterKeys[CHOOSE j \in 1..Len(pixelFilterKeys) :
                      /\ filters[pixelFilterKeys[j]] = v
                      /\ \A i \in 1..(j - 1) : filters[pixelFilterKeys[i]] # v]
    IN  \E j \in 1..Len(pixelFilterKeys) :
            filters[pixelFilterKeys[j]] # initialFilters[find(filters[pixelFilterKeys[j]])]

\* needsPixelManipulation: each value is compared with the initial value of
\* the first key that holds an equal value.
needsPixelManipulation(adjustments) ==
    LET filters == adjustments.filters
        find(v) == pixelFilterKeys[CHOOSE j \in 1..Len(pixelFilterKeys) :
                      /\ filters[pixelFilterKeys[j]] = v
                      /\ \A i \in 1..(j - 1) : filters[pixelFilterKeys[i]] # v]
    IN  \/ \E j \in 1..Len(pixelFilterKeys) :
            filters[pixelFilterKeys[j]] # initialFilters[find(filters[pixelFilterKeys[j]])]
        \/ ~curvesAreDefault(adjustments.curves)
        \/ hslIsEdited(adjustments.hsl)

getAdjustmentsCss(adjustments) ==
    [needsPixelManipulation |-> needsPixelManipulation(adjustments),
     filterString |-> [brightness |-> adjustments.filters.brightness,
                       contrast |-> adjustments.filters.contrast,
                       saturation |-> adjustments.filters.saturation,
                       sepia |-> adjustments.filters.sepia],
     pixelFilters |-> [k \in {pixelFilterKeys[j] : j \in 1..Len(pixelFilterKeys)}
                           \cup {"hsl", "curves"} |->
                         IF k = "hsl" THEN adjustments.hsl
                         ELSE IF k = "curves" THEN adjustments.curves
                         ELSE adjustments.filters[k]]]

(***************************************************************************)
(* The pixel stages of drawCanvas, in statement order.                     *)
(***************************************************************************)
pixelStageOrderGrainFirst ==
    <<"grain", "exposure", "temperature", "vibrance", "dehaze", "highlightsShadows",
      "whitesBlacks", "curves", "hsl", "haze", "sharpen">>

pixelStageOrder ==
    <<"exposure", "temperature", "vibrance", "dehaze", "highlightsShadows",
      "whitesBlacks", "curves", "hsl", "haze", "sharpen", "grain">>

\* The condition of the if statement in front of each stage
stageGuard(name, pf) ==
    CASE name = "exposure"          -> pf.exposure # 0
      [] name = "temperature"       -> pf.temperature # 0
      [] name = "vibrance"          -> pf.vibrance # 0
      [] name = "dehaze"            -> pf.dehaze # 0
      [] name = "highlightsShadows" -> pf.highlights # 0 \/ pf.shadows # 0
      [] name = "whitesBlacks"      -> pf.whites # 0 \/ pf.blacks # 0
      [] name = "curves"            -> ~curvesAreDefault(pf.curves)
      [] name = "hsl"               -> hslIsEdited(pf.hsl)
      [] name = "haze"              -> pf.haze > 0
      [] name = "sharpen"           -> pf.sharpen > 0
      [] name = "grain"             -> pf.grain > 0

\* The call each stage makes
stageApply(name, imageData, pf, random) ==
    CASE name = "exposure"          -> applyExposure(imageData, pf.exposure)
      [] name = "temperature"       -> applyTemperature(imageData, pf.temperature)
      [] name = "vibrance"          -> applyVibrance(imageData, pf.vibrance)
      [] name = "dehaze"            -> applyDehaze(imageData, pf.dehaze)
      [] name = "highlightsShadows" ->
            applyHighlightsShadows(imageData, pf.highlights, pf.shadows)
      [] name = "whitesBlacks"      -> applyWhitesBlacks(imageData, pf.whites, pf.blacks)
      [] name = "curves"            -> applyCurves(imageData, pf.curves)
      [] name = "hsl"               -> applyHsl(imageData, pf.hsl)
      [] name = "haze"              -> applyHaze(imageData, pf.haze, pf.hazeSpread)
      [] name = "sharpen"           -> applySharpen(imageData, pf.sharpen)
      [] name = "grain"             -> applyGrain(imageData, pf.grain, random)

\* imageData and the log of what ran (the CSS draw, then the stages whose
\* guard held), after the CSS draw and the first k stage statements
RECURSIVE pixelStages(_, _, _, _)
pixelStages(k, imageData, pf, random) ==
    IF k = 0 THEN [imageData |-> imageData, log |-> <<"css">>]
    ELSE LET prev == pixelStages(k - 1, imageData, pf, random)
             name == pixelStageOrder[k]
         IN  IF stageGuard(name, pf)
             THEN [imageData |-> stageApply(name, prev.imageData, pf, random),
                   log |-> Append(prev.log, name)]
             ELSE prev

\* The adjusted image canvas: the CSS-filtered base, then the pixel stages
\* behind the needsPixelManipulation gate.
adjustImage(baseImage, adjustments, random) ==
    LET css == getAdjustmentsCss(adjustments)
        drawn == drawImage(NewCanvas(baseImage.w, baseImage.h),
                           cssFilter(baseImage, css.filterString), "source-over")
    IN  pixelStages(IF css.needsPixelManipulation THEN Len(pixelStageOrder) ELSE 0,
                    drawn, css.pixelFilters, random)

(***************************************************************************)
(* The mask compositor of drawCanvas.                                      *)
(***************************************************************************)
NoCanvas == [w |-> 0, h |-> 0, px |-> << >>]

\* l => l.isVisible && l.maskSrc
isVisibleWithMask(l) == l.isVisible /\ l.maskSrc.kind # "null"

\* tempMaskCanvas of one loop iteration: the mask drawn at its natural size,
\* then white filled over it with xor when the layer is inverted
tempMaskCanvas(layer, w, h) ==
    LET drawn == drawImage(NewCanvas(w, h), layer.maskSrc, "source-over")
    IN  IF layer.isMaskInverted THEN fillRect(drawn, White, "xor") ELSE drawn

\* One loop iteration on maskCompositeCanvas
combineMask(maskComposite, layer) ==
    drawImage(maskComposite, tempMaskCanvas(layer, maskComposite.w, maskComposite.h),
              "lighten")

\* maskCompositeCanvas after the black fill and the first k layers of a list
RECURSIVE maskCompositeOf(_, _, _, _)
maskCompositeOf(layerList, k, w, h) ==
    IF k = 0 THEN fillRect(NewCanvas(w, h), Black, "source-over")
    ELSE combineMask(maskCompositeOf(layerList, k - 1, w, h), layerList[k])

\* The branch without masks, with the draw left out
compositeUnmaskedNoDraw(cleared, adjusted) == cleared

\* The branch without masks: the adjusted canvas drawn on the cleared canvas
compositeUnmasked(cleared, adjusted) == drawImage(cleared, adjusted, "source-over")

\* Steps 3 and 4: the adjusted image cut by the composite mask with
\* destination-in, drawn over the base already on the canvas
compositeMasked(onCanvas, adjusted, maskComposite) ==
    LET finalAdjustedLayerCanvas ==
            drawImage(drawImage(NewCanvas(onCanvas.w, onCanvas.h), adjusted, "source-over"),
                      maskComposite, "destination-in")
    IN  drawImage(onCanvas, finalAdjustedLayerCanvas, "source-over")

(***************************************************************************)
(* The histogram analyzer.  A histogram is a function on 0..255; counts    *)
(* are integers and normalised entries are thousandths.                    *)
(***************************************************************************)
\* Math.round(red * 0.299 + green * 0.587 + blue * 0.114)
luma(p) == (299 * p[1] + 587 * p[2] + 114 * p[3] + FX \div 2) \div FX

\* The four count arrays after the loop over the pixels
histogramCounts(imageData) ==
    LET count(bin(_)) ==
            [v \in 0..255 |->
                Cardinality({k \in 1..Len(imageData.px) : bin(imageData.px[k]) = v})]
        red(p) == p[1]
        green(p) == p[2]
        blue(p) == p[3]
    IN  [rgb |-> count(luma), red |-> count(red), green |-> count(green),
         blue |-> count(blue)]

maxOf(hist) == CHOOSE m \in Range(hist) : \A v \in Range(hist) : v <= m

\* A mutation of normalize that returns the counts as they are
normalizeNoScale(hist) == hist

\* val * scale with scale = 255 / maxVal, as the quotient val * 255 / maxVal
normalize(hist) ==
    LET maxVal == maxOf(hist)
    IN  IF maxVal = 0 THEN hist
        ELSE [v \in 0..255 |-> (hist[v] * 255 * FX) \div maxVal]

\* A mutation of calculateHistogram that scales the four arrays by one maximum
calculateHistogramSharedScale(imageData) ==
    LET counts == histogramCounts(imageData)
        maxVal == Max2(Max2(maxOf(counts.rgb), maxOf(counts.red)),
                       Max2(maxOf(counts.green), maxOf(counts.blue)))
        scaled(hist) == IF maxVal = 0 THEN hist
                        ELSE [v \in 0..255 |-> (hist[v] * 255 * FX) \div maxVal]
    IN  [rgb |-> scaled(counts.rgb), red |-> scaled(counts.red),
         green |-> scaled(counts.green), blue |-> scaled(counts.blue)]

calculateHistogram(imageData) ==
    LET counts == histogramCounts(imageData)
    IN  [rgb |-> normalize(counts.rgb), red |-> normalize(counts.red),
         green |-> normalize(counts.green), blue |-> normalize(counts.blue)]

(***************************************************************************)
(* Inputs.                                                                 *)
(***************************************************************************)
MaxLayers == 2
MaxEdits == 2

Image(w, h, px) == [kind |-> "image", w |-> w, h |-> h, px |-> px]
NullSrc == [kind |-> "null", w |-> 0, h |-> 0, px |-> << >>]
BrokenSrc == [kind |-> "broken", w |-> 0, h |-> 0, px |-> << >>]

Gray2x2 == Image(2, 2, [i \in 1..4 |-> <<128, 128, 128, 255>>])
Color2x1 == Image(2, 1, <<(<<200, 40, 40, 255>>), (<<30, 90, 220, 255>>)>>)
Color3x3 ==
    Image(3, 3, <<(<<10, 20, 30, 255>>), (<<250, 250, 250, 255>>), (<<0, 0, 0, 255>>),
                  (<<255, 0, 0, 255>>), (<<128, 128, 128, 255>>), (<<0, 255, 0, 255>>),
                  (<<60, 200, 90, 255>>), (<<255, 255, 255, 255>>), (<<0, 0, 255, 255>>)>>)

White1x1 == Image(1, 1, <<(<<255, 255, 255, 255>>)>>)
Translucent2x2 ==
    Image(2, 2, <<(<<200, 40, 40, 0>>), (<<30, 90, 220, 64>>),
                  (<<128, 128, 128, 128>>), (<<250, 250, 250, 255>>)>>)

BaseSamples == {Gray2x2, Color2x1, NullSrc, BrokenSrc}

\* Masks: opaque grey-scale images (as a segmentation service returns them),
\* brush strokes (white on a transparent canvas, soft at the edge), an image
\* of another size, a source that does not load, and no mask.
MaskPatterns == {"white", "black", "gray", "brush", "split", "small", "broken", "none"}

MaskOf(pattern, w, h) ==
    CASE pattern = "white"  -> Image(w, h, [i \in 1..(w * h) |-> White])
      [] pattern = "black"  -> Image(w, h, [i \in 1..(w * h) |-> Black])
      [] pattern = "gray"   -> Image(w, h, [i \in 1..(w * h) |-> <<128, 128, 128, 255>>])
      [] pattern = "brush"  -> Image(w, h, [i \in 1..(w * h) |->
                                   IF i % 2 = 1 THEN <<255, 255, 255, 128>>
                                   ELSE Transparent])
      [] pattern = "split"  -> Image(w, h, [i \in 1..(w * h) |->
                                   IF i % 2 = 1 THEN White ELSE Black])
      [] pattern = "small"  -> Image(1, 1, <<White>>)
      [] pattern = "broken" -> BrokenSrc
      [] pattern = "none"   -> NullSrc

LayerOf(visible, pattern, inverted, w, h) ==
    [isVisible |-> visible, maskSrc |-> MaskOf(pattern, w, h),
     isMaskInverted |-> inverted]

\* Visible layers with every mask, the inverted ones among them with the
\* uniform and the brushed masks; hidden layers with and without a mask
LayerSamples(w, h) ==
    {LayerOf(TRUE, m, FALSE, w, h) : m \in MaskPatterns}
        \cup {LayerOf(TRUE, m, TRUE, w, h) : m \in {"white", "black", "brush", "none"}}
        \cup {LayerOf(FALSE, "white", TRUE, w, h), LayerOf(FALSE, "none", FALSE, w, h)}

LayerListsUpTo(n, w, h) == UNION {[1..k -> LayerSamples(w, h)] : k \in 0..n}

LayerLists(w, h) == LayerListsUpTo(MaxLayers, w, h)

\* One edit of one Adjustments field.  (TLC orders the fields of a record by
\* the first appearance of their names in the module, and sets of edits are
\* compared group first: the names group, key, value first appear here.)
Edit(group, key, value) == [group |-> group, key |-> key, value |-> value]

SCurve == <<[x |-> 0, y |-> 0], [x |-> 64, y |-> 30], [x |-> 192, y |-> 230],
            [x |-> 255, y |-> 255]>>
ClipCurve == <<[x |-> 64, y |-> 0], [x |-> 192, y |-> 255]>>
LiftCurve == <<[x |-> 0, y |-> 0], [x |-> 128, y |-> 200], [x |-> 255, y |-> 255]>>

EditSamples ==
    {Edit("filters", "brightness", 150), Edit("filters", "contrast", 50),
     Edit("filters", "saturation", 0), Edit("filters", "sepia", 100),
     Edit("filters", "exposure", 100), Edit("filters", "exposure", -50),
     Edit("filters", "highlights", 60), Edit("filters", "shadows", -60),
     Edit("filters", "whites", 100), Edit("filters", "blacks", 100),
     Edit("filters", "temperature", -100), Edit("filters", "vibrance", 80),
     Edit("filters", "sharpen", 100), Edit("filters", "dehaze", 100),
     Edit("filters", "grain", 100), Edit("filters", "haze", 100),
     Edit("filters", "hazeSpread", 0), Edit("filters", "hazeSpread", 100),
     Edit("hsl", "red", [h |-> 0, s |-> 100, l |-> 0]),
     Edit("hsl", "blue", [h |-> -50, s |-> 0, l |-> 20]),
     Edit("curves", "rgb", SCurve), Edit("curves", "rgb", ClipCurve),
     Edit("curves", "red", LiftCurve)}

applyEdit(adjustments, e) ==
    CASE e.group = "filters" ->
            [adjustments EXCEPT !.filters =
                [k \in DOMAIN adjustments.filters |->
                    IF k = e.key THEN e.value ELSE adjustments.filters[k]]]
      [] e.group = "hsl" ->
            [adjustments EXCEPT !.hsl =
                [k \in DOMAIN adjustments.hsl |->
                    IF k = e.key THEN e.value ELSE adjustments.hsl[k]]]
      [] e.group = "curves" ->
            [adjustments EXCEPT !.curves =
                [k \in DOMAIN adjustments.curves |->
                    IF k = e.key THEN e.value ELSE adjustments.curves[k]]]

RECURSIVE applyEdits(_, _)
applyEdits(adjustments, edits) ==
    IF edits = {} THEN adjustments
    ELSE LET e == CHOOSE d \in edits : TRUE
         IN  applyEdits(applyEdit(adjustments, e), edits \ {e})

\* The sets of at most n edits, no two of them on the same field
RECURSIVE EditSets(_)
EditSets(n) ==
    IF n = 0 THEN {{}}
    ELSE LET smaller == EditSets(n - 1)
         IN  smaller \cup
             {E \cup {e} : E \in smaller,
                           e \in EditSamples}

sameField(d1, d2) == d1.group = d2.group /\ d1.key = d2.key

\* Adjustments that differ from the identity in at most MaxEdits fields
AdjustmentSamples ==
    {applyEdits(initialAdjustments, E) :
        E \in {F \in EditSets(MaxEdits) :
                 \A d1, d2 \in F : sameField(d1, d2) => d1 = d2}}

\* What Math.random() returns, in thousandths
RandomSamples == {0, 500, 999}

\* One draw per pixel; for more than two pixels only a few patterns
RandomDraws(n) ==
    IF n <= 2 THEN [1..n -> RandomSamples]
    ELSE {[i \in 1..n |-> r] : r \in RandomSamples}
            \cup {[i \in 1..n |-> IF i % 2 = 1 THEN 0 ELSE 999]}

(***************************************************************************)
(* drawCanvas as a process: it runs to its first await, and from each      *)
(* image load to the next await or to its end.                             *)
(***************************************************************************)
VARIABLES
    baseImageSrc,         \* currentState.baseImageSrc
    layers,               \* currentState.layers
    activeAdjustments,    \* the Adjustments being drawn
    pc,                   \* where drawCanvas stands
    canvas,               \* canvasRef.current
    adjustedImageCanvas,
    maskCompositeCanvas,
    visibleLayers,
    layerIndex,           \* position of the for-of loop in visibleLayers
    stageLog,             \* the stages that have run, in the order they ran
    errors,               \* what console.error has been given
    opName,               \* the operator applied on its own
    opArgs,
    opInput,
    opOutput,
    calls,                \* the invocations of drawCanvas made by the redraw effect
    frameRequested,       \* an animation frame of the redraw effect is pending
    heap,                 \* the objects that Adjustments values are made of
    history,              \* the history state: stack and index
    liveAdjustments,      \* the address of the live Adjustments, or Null
    customPresets,        \* the addresses of the presets' Adjustments
    timers,               \* the setTimeout callbacks that have not run yet
    committed,            \* per stack entry, its adjustments as they were committed
    liveValue,            \* the live adjustments as they were when set
    handlerCalls,         \* the number of handler calls so far
    isLoading,            \* the loading overlay is shown
    tasks,                \* the asynchronous handler calls that set isLoading
    isProcessing,         \* the processing indicator is shown
    processingTimer,      \* the timeout of processingTimerRef has not run yet
    commitTimers,         \* the 10 ms timeouts of the commit handlers not yet run
    effectPending,        \* a dependency of the redraw effect changed, it has not rerun
    redraws               \* isCancelled of each redraw of the effect in flight

drawVars ==
    <<baseImageSrc, layers, activeAdjustments, pc, canvas, adjustedImageCanvas,
      maskCompositeCanvas, visibleLayers, layerIndex, stageLog, errors>>

opVars == <<opName, opArgs, opInput, opOutput>>

redrawVars == <<calls, frameRequested>>

editorVars ==
    <<heap, history, liveAdjustments, customPresets, timers, committed, liveValue,
      handlerCalls>>

uiVars ==
    <<isLoading, tasks, isProcessing, processingTimer, commitTimers, effectPending,
      redraws>>

vars == <<drawVars, opVars, redrawVars, editorVars, uiVars>>

NoOp == opName = "none" /\ opArgs = << >> /\ opInput = NoCanvas /\ opOutput = NoCanvas

NoRedraw == calls = << >> /\ frameRequested = FALSE

NoUi ==
    /\ isLoading = FALSE
    /\ tasks = << >>
    /\ isProcessing = FALSE
    /\ processingTimer = FALSE
    /\ commitTimers = << >>
    /\ effectPending = FALSE
    /\ redraws = << >>

NoEditor ==
    /\ heap = << >>
    /\ history = [stack |-> << >>, index |-> 0]
    /\ liveAdjustments = 0
    /\ customPresets = << >>
    /\ timers = << >>
    /\ committed = << >>
    /\ liveValue = 0
    /\ handlerCalls = 0

DrawInit ==
    /\ pc = "idle"
    /\ canvas = NoCanvas
    /\ adjustedImageCanvas = NoCanvas
    /\ maskCompositeCanvas = NoCanvas
    /\ visibleLayers = << >>
    /\ layerIndex = 0
    /\ stageLog = << >>
    /\ errors = << >>

\* Any layer list under few adjustments, and any adjustments under few layers
Init ==
    /\ baseImageSrc \in BaseSamples
    /\ \/ /\ layers \in IF baseImageSrc.kind = "image"
                       THEN LayerLists(baseImageSrc.w, baseImageSrc.h)
                       ELSE LayerListsUpTo(1, 2, 2)
          /\ activeAdjustments \in
                {initialAdjustments,
                 applyEdit(initialAdjustments, Edit("filters", "exposure", 100))}
       \/ /\ layers \in {<< >>, <<LayerOf(TRUE, "white", FALSE,
                                          baseImageSrc.w, baseImageSrc.h)>>}
          /\ activeAdjustments \in AdjustmentSamples
    /\ DrawInit
    /\ NoOp
    /\ NoRedraw
    /\ NoEditor
    /\ NoUi

\* drawCanvas up to `await loadImage(currentState.baseImageSrc)`
DrawStart ==
    /\ pc = "idle"
    /\ pc' = IF baseImageSrc.kind = "null" THEN "done" ELSE "loadBase"
    /\ UNCHANGED <<baseImageSrc, layers, activeAdjustments, canvas, adjustedImageCanvas,
                   maskCompositeCanvas, visibleLayers, layerIndex, stageLog, errors>>
    /\ UNCHANGED <<opVars, redrawVars, editorVars, uiVars>>

\* The pixels of a loaded image
ImageDataOf(src) == [w |-> src.w, h |-> src.h, px |-> src.px]

\* drawCanvas once the adjusted canvas is built: the canvas is cleared, and
\* drawCanvas either finishes (no visible mask) or draws the base, fills the
\* mask composite black and awaits the first mask.
baseLoaded(baseImage, adjusted, visible) ==
    /\ adjustedImageCanvas' = adjusted.imageData
    /\ visibleLayers' = visible
    /\ IF Len(visible) = 0
       THEN /\ canvas' = compositeUnmasked(NewCanvas(baseImage.w, baseImage.h),
                                           adjusted.imageData)
            /\ maskCompositeCanvas' = maskCompositeCanvas
            /\ stageLog' = stageLog \o adjusted.log \o <<"draw">>
            /\ layerIndex' = layerIndex
            /\ pc' = "done"
       ELSE /\ canvas' = drawImage(NewCanvas(baseImage.w, baseImage.h), baseImage,
                                   "source-over")
            /\ maskCompositeCanvas' =
                  maskCompositeOf(visible, 0, baseImage.w, baseImage.h)
            /\ stageLog' = stageLog \o adjusted.log
            /\ layerIndex' = 1
            /\ pc' = "loadMask"

\* The base image has loaded
DrawBaseLoaded ==
    /\ pc = "loadBase"
    /\ baseImageSrc.kind = "image"
    /\ \E random \in IF activeAdjustments.filters.grain > 0
                     THEN RandomDraws(baseImageSrc.w * baseImageSrc.h)
                     ELSE {[i \in 1..(baseImageSrc.w * baseImageSrc.h) |-> 0]} :
        baseLoaded(ImageDataOf(baseImageSrc),
                   adjustImage(ImageDataOf(baseImageSrc), activeAdjustments, random),
                   SelectSeq(layers, isVisibleWithMask))
    /\ UNCHANGED <<baseImageSrc, layers, activeAdjustments, errors>>
    /\ UNCHANGED <<opVars, redrawVars, editorVars, uiVars>>

\* loadImage rejects for the base image: the catch block logs
DrawBaseFailed ==
    /\ pc = "loadBase"
    /\ baseImageSrc.kind = "broken"
    /\ errors' = Append(errors, "Error drawing canvas:")
    /\ pc' = "done"
    /\ UNCHANGED <<baseImageSrc, layers, activeAdjustments, canvas, adjustedImageCanvas,
                   maskCompositeCanvas, visibleLayers, layerIndex, stageLog>>
    /\ UNCHANGED <<opVars, redrawVars, editorVars, uiVars>>

\* A mask has loaded: one iteration of the loop and, after the last layer,
\* the cut with destination-in and the final draw.
DrawMaskLoaded ==
    /\ pc = "loadMask"
    /\ visibleLayers[layerIndex].maskSrc.kind = "image"
    /\ LET combined == combineMask(maskCompositeCanvas, visibleLayers[layerIndex])
       IN  /\ maskCompositeCanvas' = combined
           /\ IF layerIndex = Len(visibleLayers)
              THEN /\ canvas' = compositeMasked(canvas, adjustedImageCanvas, combined)
                   /\ stageLog' = stageLog \o <<"mask", "composite">>
                   /\ layerIndex' = layerIndex
                   /\ pc' = "done"
              ELSE /\ canvas' = canvas
                   /\ stageLog' = Append(stageLog, "mask")
                   /\ layerIndex' = layerIndex + 1
                   /\ pc' = "loadMask"
    /\ UNCHANGED <<baseImageSrc, layers, activeAdjustments, adjustedImageCanvas,
                   visibleLayers, errors>>
    /\ UNCHANGED <<opVars, redrawVars, editorVars, uiVars>>

\* loadImage rejects for a mask: the catch block logs, the canvas keeps
\* what has been drawn on it
DrawMaskFailed ==
    /\ pc = "loadMask"
    /\ visibleLayers[layerIndex].maskSrc.kind = "broken"
    /\ errors' = Append(errors, "Error drawing canvas:")
    /\ pc' = "done"
    /\ UNCHANGED <<baseImageSrc, layers, activeAdjustments, canvas, adjustedImageCanvas,
                   maskCompositeCanvas, visibleLayers, layerIndex, stageLog>>
    /\ UNCHANGED <<opVars, redrawVars, editorVars, uiVars>>

Next ==
    \/ DrawStart
    \/ DrawBaseLoaded
    \/ DrawBaseFailed
    \/ DrawMaskLoaded
    \/ DrawMaskFailed

Spec == Init /\ [][Next]_vars

(***************************************************************************)
(* The operators and the LUT builder applied on their own.                 *)
(***************************************************************************)
OpImages ==
    {ImageDataOf(Gray2x2), ImageDataOf(Color2x1), ImageDataOf(Color3x3),
     ImageDataOf(White1x1), ImageDataOf(Translucent2x2)}

\* Sliders with range -100..100, and with range 0..100
SignedSamples == {-100, -50, 0, 37, 100}
UnsignedSamples == {0, 50, 100}

DuplicateCurve == <<[x |-> 0, y |-> 0], [x |-> 128, y |-> 50], [x |-> 128, y |-> 200],
                    [x |-> 255, y |-> 255]>>
ValleyCurve == <<[x |-> 0, y |-> 255], [x |-> 128, y |-> 0], [x |-> 255, y |-> 255]>>
SteepCurve == <<[x |-> 0, y |-> 0], [x |-> 10, y |-> 255], [x |-> 255, y |-> 255]>>
ShortCurve == <<[x |-> 100, y |-> 50], [x |-> 150, y |-> 200]>>
PointCurve == <<[x |-> 100, y |-> 200]>>
UnsortedCurve == <<[x |-> 255, y |-> 255], [x |-> 128, y |-> 100], [x |-> 0, y |-> 0]>>

CurveSamples ==
    {initialCurve, SCurve, ClipCurve, LiftCurve, DuplicateCurve, ValleyCurve,
     SteepCurve, ShortCurve, PointCurve, UnsortedCurve, << >>}

CurvesSamples ==
    {[initialCurves EXCEPT !.rgb = c] : c \in {initialCurve, SCurve, ClipCurve, ValleyCurve}}
        \cup {[initialCurves EXCEPT !.red = LiftCurve],
              [initialCurves EXCEPT !.rgb = SCurve, !.green = ShortCurve],
              [rgb |-> ClipCurve, red |-> LiftCurve, green |-> ValleyCurve,
               blue |-> SteepCurve]}

HslSamples ==
    {initialHSL,
     [c \in HslColors |-> IF c = "red" THEN [h |-> 0, s |-> 100, l |-> 0]
                          ELSE [h |-> 0, s |-> 0, l |-> 0]],
     [c \in HslColors |-> IF c = "blue" THEN [h |-> -50, s |-> 0, l |-> 20]
                          ELSE [h |-> 0, s |-> 0, l |-> 0]],
     [c \in HslColors |-> [h |-> 100, s |-> 100, l |-> 100]],
     [c \in HslColors |-> [h |-> -100, s |-> -100, l |-> -100]]}

InitOps ==
    /\ baseImageSrc = NullSrc
    /\ layers = << >>
    /\ activeAdjustments = initialAdjustments
    /\ DrawInit
    /\ opName = "none"
    /\ opArgs = << >>
    /\ opInput \in OpImages
    /\ opOutput = NoCanvas
    /\ NoRedraw
    /\ NoEditor
    /\ NoUi

Applied(name, args, output) ==
    /\ opName = "none"
    /\ opName' = name
    /\ opArgs' = args
    /\ opOutput' = output
    /\ UNCHANGED opInput
    /\ UNCHANGED <<drawVars, redrawVars, editorVars, uiVars>>

OpExposure ==
    \E amount \in SignedSamples :
        Applied("exposure", <<amount>>, applyExposure(opInput, amount))

OpTemperature ==
    \E temperature \in SignedSamples :
        Applied("temperature", <<temperature>>, applyTemperature(opInput, temperature))

OpVibrance ==
    \E amount \in SignedSamples :
        Applied("vibrance", <<amount>>, applyVibrance(opInput, amount))

OpDehaze ==
    \E amount \in SignedSamples :
        Applied("dehaze", <<amount>>, applyDehaze(opInput, amount))

OpHighlightsShadows ==
    \E highlights \in SignedSamples, shadows \in SignedSamples :
        Applied("highlightsShadows", <<highlights, shadows>>,
                applyHighlightsShadows(opInput, highlights, shadows))

OpWhitesBlacks ==
    \E whites \in SignedSamples, blacks \in SignedSamples :
        Applied("whitesBlacks", <<whites, blacks>>,
                applyWhitesBlacks(opInput, whites, blacks))

OpCurves ==
    \E curves \in CurvesSamples :
        Applied("curves", <<curves>>, applyCurves(opInput, curves))

OpHsl ==
    \E hsl \in HslSamples : Applied("hsl", <<hsl>>, applyHsl(opInput, hsl))

OpHaze ==
    \E amount \in UnsignedSamples, spread \in UnsignedSamples :
        Applied("haze", <<amount, spread>>, applyHaze(opInput, amount, spread))

OpSharpen ==
    \E amount \in UnsignedSamples :
        Applied("sharpen", <<amount>>, applySharpen(opInput, amount))

GrainAmounts == UnsignedSamples \cup {1, 2}

OpGrain ==
    \E amount \in GrainAmounts, random \in RandomDraws(Len(opInput.px)) :
        Applied("grain", <<amount, random>>, applyGrain(opInput, amount, random))

\* Every pixel filter away from its identity value: all eleven stages run
AllStagesEdited ==
    [initialAdjustments EXCEPT
        !.filters = [k \in DOMAIN initialFilters |->
                        IF k \in {"brightness", "contrast", "saturation", "sepia"}
                        THEN initialFilters[k] ELSE 60],
        !.curves = [initialCurves EXCEPT !.rgb = SCurve, !.red = LiftCurve],
        !.hsl = [c \in HslColors |-> [h |-> 30, s |-> -40, l |-> 20]]]

\* The stage statements of drawCanvas on a buffer, from getImageData to
\* putImageData
runPipeline(adjustments) ==
    \E random \in IF adjustments.filters.grain > 0
                  THEN RandomDraws(Len(opInput.px))
                  ELSE {[i \in 1..Len(opInput.px) |-> 0]} :
        Applied("pipeline", <<adjustments, random>>,
                pixelStages(Len(pixelStageOrder), opInput,
                            getAdjustmentsCss(adjustments).pixelFilters,
                            random).imageData)

OpPipeline ==
    \/ \E adjustments \in AdjustmentSamples : runPipeline(adjustments)
    \/ runPipeline(AllStagesEdited)

OpHistogram ==
    Applied("calculateHistogram", << >>, calculateHistogram(opInput))

OpCreateLut ==
    \E points \in CurveSamples :
        Applied("createLutFromPoints", <<points>>, createLutFromPoints(points))

NextOps ==
    \/ OpExposure
    \/ OpTemperature
    \/ OpVibrance
    \/ OpDehaze
    \/ OpHighlightsShadows
    \/ OpWhitesBlacks
    \/ OpCurves
    \/ OpHsl
    \/ OpHaze
    \/ OpSharpen
    \/ OpGrain
    \/ OpCreateLut
    \/ OpHistogram
    \/ OpPipeline

SpecOps == InitOps /\ [][NextOps]_vars

(***************************************************************************)
(* createLutFromPoints on curves given in every order, with and without    *)
(* points that share an x.                                                 *)
(***************************************************************************)
MaxPoints == 4

TwoOnOneX == <<[x |-> 100, y |-> 300], [x |-> 100, y |-> -20]>>
HighPointCurve == <<[x |-> 40, y |-> 300]>>
LowPointCurve == <<[x |-> 40, y |-> -20]>>
TwoDuplicatesCurve == <<[x |-> 0, y |-> 0], [x |-> 0, y |-> 40], [x |-> 255, y |-> 255],
                        [x |-> 255, y |-> 180]>>
FivePointCurve == <<[x |-> 0, y |-> 10], [x |-> 60, y |-> 40], [x |-> 120, y |-> 150],
                    [x |-> 200, y |-> 210], [x |-> 255, y |-> 250]>>
SixPointCurve == <<[x |-> 0, y |-> 0], [x |-> 50, y |-> 80], [x |-> 50, y |-> 20],
                   [x |-> 128, y |-> 128], [x |-> 200, y |-> 220], [x |-> 255, y |-> 255]>>

\* The points of a curve in every order
Orderings(c) == {[k \in 1..Len(c) |-> c[p[k]]] : p \in Permutations(1..Len(c))}

LutInputs ==
    UNION {Orderings(c) :
             c \in {d \in CurveSamples \cup {TwoOnOneX, HighPointCurve, LowPointCurve,
                                             TwoDuplicatesCurve, FivePointCurve,
                                             SixPointCurve} :
                      Len(d) <= MaxPoints}}

InitLut ==
    /\ baseImageSrc = NullSrc
    /\ layers = << >>
    /\ activeAdjustments = initialAdjustments
    /\ DrawInit
    /\ opName = "none"
    /\ opArgs = << >>
    /\ opInput = ImageDataOf(White1x1)
    /\ opOutput = NoCanvas
    /\ NoRedraw
    /\ NoEditor
    /\ NoUi

OpCreateLutOrdered ==
    \E points \in LutInputs :
        Applied("createLutFromPoints", <<points>>, createLutFromPoints(points))

SpecLut == InitLut /\ [][OpCreateLutOrdered]_vars

(***************************************************************************)
(* applySharpen on images of every size up to MaxSide x MaxSide, so that   *)
(* images without an interior, with one interior pixel and with adjacent   *)
(* interior pixels all occur.                                              *)
(***************************************************************************)
MaxSide == 4

\* Two pixel patterns: opaque with every channel varying from pixel to pixel,
\* and one whose alpha varies too
PatternPixel(pattern, i) ==
    IF pattern = 1
    THEN <<(37 * i) % 256, (91 * i + 5) % 256, (13 * i * i) % 256, 255>>
    ELSE <<(201 * i + 40) % 256, 255 - ((59 * i) % 256), (i * 97) % 256, (64 * i) % 256>>

SharpenImages ==
    {[w |-> w, h |-> h, px |-> [i \in 1..(w * h) |-> PatternPixel(pattern, i)]] :
        w \in 1..MaxSide, h \in 1..MaxSide, pattern \in {1, 2}}

InitSharpen ==
    /\ baseImageSrc = NullSrc
    /\ layers = << >>
    /\ activeAdjustments = initialAdjustments
    /\ DrawInit
    /\ opName = "none"
    /\ opArgs = << >>
    /\ opInput \in SharpenImages
    /\ opOutput = NoCanvas
    /\ NoRedraw
    /\ NoEditor
    /\ NoUi

SpecSharpen == InitSharpen /\ [][OpSharpen]_vars

(***************************************************************************)
(* The redraw effect.  Every change of currentState or activeAdjustments   *)
(* cancels the pending animation frame and requests a new one; a frame     *)
(* that fires calls the drawCanvas of the latest render, which draws on    *)
(* the one canvas of the editor.  Nothing stops a call once it has begun:  *)
(* isCancelled guards endProcessing only.  Image loads finish in any       *)
(* order.                                                                  *)
(***************************************************************************)
MaxRedraws == 2

EditorStateOf(src, layerList, adjustments) ==
    [baseImageSrc |-> src, layers |-> layerList, adjustments |-> adjustments]

RedrawSamples ==
    {EditorStateOf(Gray2x2, << >>, initialAdjustments),
     EditorStateOf(Gray2x2, <<LayerOf(TRUE, "white", FALSE, 2, 2)>>,
                   applyEdit(initialAdjustments, Edit("filters", "exposure", 100))),
     EditorStateOf(Color2x1, << >>, initialAdjustments),
     EditorStateOf(Gray2x2, <<LayerOf(TRUE, "broken", FALSE, 2, 2)>>,
                   applyEdit(initialAdjustments, Edit("filters", "exposure", 100))),
     EditorStateOf(BrokenSrc, << >>, initialAdjustments)}

currentEditorState == EditorStateOf(baseImageSrc, layers, activeAdjustments)

NoRandom(imageSrc) == [i \in 1..(imageSrc.w * imageSrc.h) |-> 0]

\* A call of drawCanvas up to `await loadImage(currentState.baseImageSrc)`:
\* what its closure holds, and its local canvases
startCall(state) ==
    [pc |-> IF state.baseImageSrc.kind = "null" THEN "done" ELSE "loadBase",
     baseImageSrc |-> state.baseImageSrc,
     layers |-> state.layers,
     adjustments |-> state.adjustments,
     adjustedImageCanvas |-> NoCanvas,
     maskCompositeCanvas |-> NoCanvas,
     visibleLayers |-> << >>,
     layerIndex |-> 0]

\* The call once its base image has loaded and the adjusted canvas is built
callAfterBase(call, baseImage, adjusted, visible) ==
    [call EXCEPT
        !.adjustedImageCanvas = adjusted,
        !.visibleLayers = visible,
        !.maskCompositeCanvas =
            IF Len(visible) = 0 THEN NoCanvas
            ELSE maskCompositeOf(visible, 0, baseImage.w, baseImage.h),
        !.layerIndex = IF Len(visible) = 0 THEN 0 ELSE 1,
        !.pc = IF Len(visible) = 0 THEN "done" ELSE "loadMask"]

\* The canvas at that point: resized to the base, cleared, and either the
\* adjusted image (no visible mask) or the base drawn on it
canvasAfterBase(baseImage, adjusted, visible) ==
    IF Len(visible) = 0
    THEN compositeUnmasked(NewCanvas(baseImage.w, baseImage.h), adjusted)
    ELSE drawImage(NewCanvas(baseImage.w, baseImage.h), baseImage, "source-over")

\* One loop iteration of a call: the temporary mask canvas takes the size
\* the canvas has now
callCombineMask(call, onCanvas) ==
    drawImage(call.maskCompositeCanvas,
              tempMaskCanvas(call.visibleLayers[call.layerIndex], onCanvas.w, onCanvas.h),
              "lighten")

\* The call and the canvas once a mask has loaded
callAfterMask(call, combined) ==
    [call EXCEPT
        !.maskCompositeCanvas = combined,
        !.layerIndex = IF call.layerIndex = Len(call.visibleLayers)
                       THEN call.layerIndex ELSE call.layerIndex + 1,
        !.pc = IF call.layerIndex = Len(call.visibleLayers) THEN "done" ELSE "loadMask"]

canvasAfterMask(call, onCanvas, combined) ==
    IF call.layerIndex = Len(call.visibleLayers)
    THEN compositeMasked(onCanvas, call.adjustedImageCanvas, combined)
    ELSE onCanvas

RedrawInit ==
    /\ \E s \in RedrawSamples :
          /\ baseImageSrc = s.baseImageSrc
          /\ layers = s.layers
          /\ activeAdjustments = s.adjustments
    /\ DrawInit
    /\ NoOp
    /\ NoEditor
    /\ NoUi
    /\ calls = << >>
    /\ frameRequested = TRUE

\* commitChange, setLiveAdjustments, undo, ...: the dependencies of the
\* effect change, its cleanup cancels the pending frame, a frame is requested
StateChanged ==
    /\ Len(calls) < MaxRedraws
    /\ \E s \in RedrawSamples :
          /\ s # currentEditorState
          /\ baseImageSrc' = s.baseImageSrc
          /\ layers' = s.layers
          /\ activeAdjustments' = s.adjustments
    /\ frameRequested' = TRUE
    /\ UNCHANGED <<pc, canvas, adjustedImageCanvas, maskCompositeCanvas, visibleLayers,
                   layerIndex, stageLog, errors, calls>>
    /\ UNCHANGED <<opVars, editorVars, uiVars>>

\* The frame fires: redraw calls drawCanvasRef.current()
AnimationFrame ==
    /\ frameRequested
    /\ frameRequested' = FALSE
    /\ calls' = Append(calls, startCall(currentEditorState))
    /\ UNCHANGED drawVars
    /\ UNCHANGED <<opVars, editorVars, uiVars>>

CallBaseLoaded(i) ==
    /\ calls[i].pc = "loadBase"
    /\ calls[i].baseImageSrc.kind = "image"
    /\ canvas' = canvasAfterBase(
                    ImageDataOf(calls[i].baseImageSrc),
                    adjustImage(ImageDataOf(calls[i].baseImageSrc), calls[i].adjustments,
                                NoRandom(calls[i].baseImageSrc)).imageData,
                    SelectSeq(calls[i].layers, isVisibleWithMask))
    /\ calls' = [calls EXCEPT ![i] =
                    callAfterBase(
                        calls[i], ImageDataOf(calls[i].baseImageSrc),
                        adjustImage(ImageDataOf(calls[i].baseImageSrc),
                                    calls[i].adjustments,
                                    NoRandom(calls[i].baseImageSrc)).imageData,
                        SelectSeq(calls[i].layers, isVisibleWithMask))]
    /\ UNCHANGED <<baseImageSrc, layers, activeAdjustments, pc, adjustedImageCanvas,
                   maskCompositeCanvas, visibleLayers, layerIndex, stageLog, errors,
                   frameRequested>>
    /\ UNCHANGED <<opVars, editorVars, uiVars>>

CallMaskLoaded(i) ==
    /\ calls[i].pc = "loadMask"
    /\ calls[i].visibleLayers[calls[i].layerIndex].maskSrc.kind = "image"
    /\ canvas' = canvasAfterMask(calls[i], canvas, callCombineMask(calls[i], canvas))
    /\ calls' = [calls EXCEPT ![i] =
                    callAfterMask(calls[i], callCombineMask(calls[i], canvas))]
    /\ UNCHANGED <<baseImageSrc, layers, activeAdjustments, pc, adjustedImageCanvas,
                   maskCompositeCanvas, visibleLayers, layerIndex, stageLog, errors,
                   frameRequested>>
    /\ UNCHANGED <<opVars, editorVars, uiVars>>

\* loadImage rejects inside a call: its catch block logs and the call ends
CallLoadFailed(i) ==
    /\ \/ /\ calls[i].pc = "loadBase"
          /\ calls[i].baseImageSrc.kind = "broken"
       \/ /\ calls[i].pc = "loadMask"
          /\ calls[i].visibleLayers[calls[i].layerIndex].maskSrc.kind = "broken"
    /\ errors' = Append(errors, "Error drawing canvas:")
    /\ calls' = [calls EXCEPT ![i].pc = "done"]
    /\ UNCHANGED <<baseImageSrc, layers, activeAdjustments, pc, canvas,
                   adjustedImageCanvas, maskCompositeCanvas, visibleLayers, layerIndex,
                   stageLog, frameRequested>>
    /\ UNCHANGED <<opVars, editorVars, uiVars>>

NextRedraw ==
    \/ StateChanged
    \/ AnimationFrame
    \/ \E i \in 1..Len(calls) : CallBaseLoaded(i)
    \/ \E i \in 1..Len(calls) : CallMaskLoaded(i)
    \/ \E i \in 1..Len(calls) : CallLoadFailed(i)

SpecRedraw == RedrawInit /\ [][NextRedraw]_vars

(***************************************************************************)
(* The edit handlers and the history.  The objects an Adjustments value is *)
(* made of live on a heap, so that a handler that wrote into an object     *)
(* held by a history entry would show.  An Adjustments object holds the    *)
(* addresses of its filters, hsl and curves objects; an hsl object the     *)
(* addresses of its eight colour objects; a curves object the addresses of *)
(* its four point arrays.  A spread copy {...o, k: v} is a new object that *)
(* shares every other field with o.                                        *)
(***************************************************************************)
MAX_HISTORY == 30

MaxHandlerCalls == 4
MaxPresets == 1

Null == 0

alloc(h, object) == [heap |-> Append(h, object), at |-> Len(h) + 1]

HslColorOrder == [k \in 1..Len(HSL_RANGES) |-> HSL_RANGES[k].color]
CurveChannelOrder == <<"rgb", "red", "green", "blue">>

\* The module constant initialAdjustments and what it is made of
initialAdjustmentsAt == 1

initialHeap ==
    << [filters |-> 2, hsl |-> 3, curves |-> 4],
       initialFilters,
       [c \in HslColors |-> 4 + (CHOOSE k \in 1..8 : HslColorOrder[k] = c)],
       [ch \in {"rgb", "red", "green", "blue"} |->
            12 + (CHOOSE k \in 1..4 : CurveChannelOrder[k] = ch)] >>
        \o [k \in 1..8 |-> [h |-> 0, s |-> 0, l |-> 0]]
        \o [k \in 1..4 |-> initialCurve]

\* The Adjustments value read through an address
deref(h, a) ==
    [filters |-> h[h[a].filters],
     hsl |-> [c \in HslColors |-> h[h[h[a].hsl][c]]],
     curves |-> [ch \in {"rgb", "red", "green", "blue"} |-> h[h[h[a].curves][ch]]]]

\* A mutation of withFilter that writes into the filters object it is given
withFilterInPlace(h, a, filter, value) ==
    [heap |-> [h EXCEPT ![h[a].filters] = [@ EXCEPT ![filter] = value]], at |-> a]

\* { ...draft, filters: { ...draft.filters, [filter]: value } }
withFilter(h, a, filter, value) ==
    LET filters == alloc(h, [h[h[a].filters] EXCEPT ![filter] = value])
    IN  alloc(filters.heap, [h[a] EXCEPT !.filters = filters.at])

\* { ...draft, hsl: { ...draft.hsl, [color]: { ...draft.hsl[color], [type]: value } } }
withHsl(h, a, color, type, value) ==
    LET entry == alloc(h, [h[h[h[a].hsl][color]] EXCEPT ![type] = value])
        hsl == alloc(entry.heap, [h[h[a].hsl] EXCEPT ![color] = entry.at])
    IN  alloc(hsl.heap, [h[a] EXCEPT !.hsl = hsl.at])

\* { ...draft, curves: { ...draft.curves, [channel]: points } }, points being
\* the new array the curve editor has built
withCurve(h, a, channel, points) ==
    LET array == alloc(h, points)
        curves == alloc(array.heap, [h[h[a].curves] EXCEPT ![channel] = array.at])
    IN  alloc(curves.heap, [h[a] EXCEPT !.curves = curves.at])

\* A mutation of commitChange that never drops the oldest entry
commitChangeNoEviction(hist, newState, overwrite) ==
    LET newStack == Append(IF overwrite THEN SubSeq(hist.stack, 1, hist.index - 1)
                           ELSE SubSeq(hist.stack, 1, hist.index), newState)
    IN  [stack |-> newStack, index |-> Len(newStack)]

\* A mutation of commitChange that takes no notice of overwrite
commitChangeNeverOverwrites(hist, newState, overwrite) ==
    LET newStack == Append(SubSeq(hist.stack, 1, hist.index), newState)
        kept == IF Len(newStack) > MAX_HISTORY THEN Tail(newStack) ELSE newStack
    IN  [stack |-> kept, index |-> Len(kept)]

\* A mutation of commitChange that keeps the entries after the current one
commitChangeKeepsRedo(hist, newState, overwrite) ==
    LET newStack == SubSeq(hist.stack, 1, IF overwrite THEN hist.index - 1 ELSE hist.index)
                        \o <<newState>>
                        \o SubSeq(hist.stack, hist.index + 1, Len(hist.stack))
        kept == IF Len(newStack) > MAX_HISTORY THEN Tail(newStack) ELSE newStack
    IN  [stack |-> kept,
         index |-> IF Len(newStack) > MAX_HISTORY THEN hist.index
                   ELSE IF overwrite THEN hist.index ELSE hist.index + 1]

\* The new history state of commitChange; updater(baseState) is newState
commitChange(hist, newState, overwrite) ==
    LET newHistoryBase == IF overwrite THEN SubSeq(hist.stack, 1, hist.index - 1)
                          ELSE SubSeq(hist.stack, 1, hist.index)
        newStack == Append(newHistoryBase, newState)
        kept == IF Len(newStack) > MAX_HISTORY THEN Tail(newStack) ELSE newStack
    IN  [stack |-> kept, index |-> Len(kept)]

currentState == history.stack[history.index]

\* The address of liveAdjustments ?? currentState.adjustments
activeAdjustmentsAt ==
    IF liveAdjustments # Null THEN liveAdjustments ELSE currentState.adjustments

Timer(kind, at, key, type, value) ==
    [kind |-> kind, at |-> at, key |-> key, type |-> type, value |-> value]

\* The editor after an image has been opened: one history entry, which
\* holds initialAdjustments itself
EditorInit ==
    /\ baseImageSrc = Gray2x2
    /\ layers = << >>
    /\ activeAdjustments = initialAdjustments
    /\ DrawInit
    /\ NoOp
    /\ NoRedraw
    /\ NoUi
    /\ heap = initialHeap
    /\ history = [stack |-> <<EditorStateOf(Gray2x2, << >>, initialAdjustmentsAt)>>,
                  index |-> 1]
    /\ liveAdjustments = Null
    /\ customPresets = << >>
    /\ timers = << >>
    /\ committed = <<initialAdjustments>>
    /\ liveValue = Null
    /\ handlerCalls = 0

HandlerCalled ==
    /\ handlerCalls < MaxHandlerCalls
    /\ handlerCalls' = handlerCalls + 1
    /\ UNCHANGED <<drawVars, opVars, redrawVars, uiVars>>

\* setLiveAdjustments(updater(activeAdjustments))
handleLiveUpdate(updated) ==
    /\ heap' = updated.heap
    /\ liveAdjustments' = updated.at
    /\ liveValue' = deref(updated.heap, updated.at)

\* The history state is replaced by next; entry is the adjustments of the
\* entry that commitChange has appended
historyCommitted(next, entry) ==
    /\ history' = next
    /\ committed' = commitChange([stack |-> committed, index |-> history.index],
                                 entry, FALSE).stack

HandleFilterChange ==
    /\ HandlerCalled
    /\ \E edit \in {<<"brightness", 150>>, <<"sepia", 100>>} :
          handleLiveUpdate(withFilter(heap, activeAdjustmentsAt, edit[1], edit[2]))
    /\ UNCHANGED <<history, customPresets, timers, committed>>

HandleHslChange ==
    /\ HandlerCalled
    /\ handleLiveUpdate(withHsl(heap, activeAdjustmentsAt, "red", "s", 100))
    /\ UNCHANGED <<history, customPresets, timers, committed>>

\* handleMouseMove of the curve editor
HandleCurveChange ==
    /\ HandlerCalled
    /\ handleLiveUpdate(withCurve(heap, activeAdjustmentsAt, "rgb", SCurve))
    /\ UNCHANGED <<history, customPresets, timers, committed>>

\* handleCommitUpdate: the callback holds the liveAdjustments of this render
HandleCommitUpdate ==
    /\ HandlerCalled
    /\ timers' = IF liveAdjustments # Null
                 THEN Append(timers, Timer("commitLive", liveAdjustments, "", "", 0))
                 ELSE timers
    /\ UNCHANGED <<heap, history, liveAdjustments, customPresets, committed, liveValue>>

\* addPoint and Reset Curve: onCurveChange and onCommit in one event, so
\* handleCommitUpdate sees the liveAdjustments of the render before the change
CurveAddPoint ==
    /\ HandlerCalled
    /\ \E points \in {LiftCurve, initialCurve} :
          handleLiveUpdate(withCurve(heap, activeAdjustmentsAt, "red", points))
    /\ timers' = IF liveAdjustments # Null
                 THEN Append(timers, Timer("commitLive", liveAdjustments, "", "", 0))
                 ELSE timers
    /\ UNCHANGED <<history, customPresets, committed>>

HandleFilterCommit ==
    /\ HandlerCalled
    /\ \E edit \in {<<"exposure", 100>>, <<"grain", 50>>} :
          timers' = Append(timers, Timer("commitFilter", Null, edit[1], "", edit[2]))
    /\ liveAdjustments' = Null
    /\ liveValue' = Null
    /\ UNCHANGED <<heap, history, customPresets, committed>>

HandleHslCommit ==
    /\ HandlerCalled
    /\ timers' = Append(timers, Timer("commitHsl", Null, "blue", "h", -50))
    /\ liveAdjustments' = Null
    /\ liveValue' = Null
    /\ UNCHANGED <<heap, history, customPresets, committed>>

\* What a timer's callback commits: the heap after its updater has run, and
\* the address of the new entry's adjustments
timerUpdate(t) ==
    CASE t.kind = "commitLive" -> [heap |-> heap, at |-> t.at]
      [] t.kind = "commitFilter" ->
            withFilter(heap, currentState.adjustments, t.key, t.value)
      [] t.kind = "commitHsl" ->
            withHsl(heap, currentState.adjustments, t.key, t.type, t.value)

timerFired(t, updated) ==
    /\ heap' = updated.heap
    /\ historyCommitted(
          commitChange(history, [currentState EXCEPT !.adjustments = updated.at], FALSE),
          deref(updated.heap, updated.at))
    /\ liveAdjustments' = IF t.kind = "commitLive" THEN Null ELSE liveAdjustments
    /\ liveValue' = IF t.kind = "commitLive" THEN Null ELSE liveValue

\* The oldest setTimeout callback runs
TimerFires ==
    /\ timers # << >>
    /\ timerFired(Head(timers), timerUpdate(Head(timers)))
    /\ timers' = Tail(timers)
    /\ UNCHANGED <<customPresets, handlerCalls>>
    /\ UNCHANGED <<drawVars, opVars, redrawVars, uiVars>>

Undo ==
    /\ HandlerCalled
    /\ history.index > 1
    /\ liveAdjustments' = Null
    /\ liveValue' = Null
    /\ history' = [history EXCEPT !.index = @ - 1]
    /\ UNCHANGED <<heap, customPresets, timers, committed>>

Redo ==
    /\ HandlerCalled
    /\ history.index < Len(history.stack)
    /\ liveAdjustments' = Null
    /\ liveValue' = Null
    /\ history' = [history EXCEPT !.index = Min2(Len(history.stack), @ + 1)]
    /\ UNCHANGED <<heap, customPresets, timers, committed>>

\* savePreset: the preset holds currentState.adjustments itself
SavePreset ==
    /\ HandlerCalled
    /\ Len(customPresets) < MaxPresets
    /\ customPresets' = Append(customPresets, currentState.adjustments)
    /\ UNCHANGED <<heap, history, liveAdjustments, timers, committed, liveValue>>

\* applyPreset: the new entry holds preset.adjustments itself
ApplyPreset ==
    /\ HandlerCalled
    /\ \E k \in 1..Len(customPresets) :
          historyCommitted(
              commitChange(history, [currentState EXCEPT !.adjustments = customPresets[k]],
                           FALSE),
              deref(heap, customPresets[k]))
    /\ UNCHANGED <<heap, liveAdjustments, customPresets, timers, liveValue>>

\* resetAll: a new history whose one entry holds initialAdjustments itself
ResetAll ==
    /\ HandlerCalled
    /\ history' = [stack |-> <<EditorStateOf(currentState.baseImageSrc, << >>,
                                             initialAdjustmentsAt)>>,
                   index |-> 1]
    /\ committed' = <<deref(heap, initialAdjustmentsAt)>>
    /\ liveAdjustments' = Null
    /\ liveValue' = Null
    /\ UNCHANGED <<heap, customPresets, timers>>

NextEditor ==
    \/ HandleFilterChange
    \/ HandleHslChange
    \/ HandleCurveChange
    \/ HandleCommitUpdate
    \/ CurveAddPoint
    \/ HandleFilterCommit
    \/ HandleHslCommit
    \/ TimerFires
    \/ Undo
    \/ Redo
    \/ SavePreset
    \/ ApplyPreset
    \/ ResetAll

SpecEditor == EditorInit /\ [][NextEditor]_vars

(***************************************************************************)
(* The history on its own, from short and from full stacks.  An entry's    *)
(* adjustments is the address of the object its commit made; the objects   *)
(* are not read here.                                                      *)
(***************************************************************************)
\* The address of the Adjustments object of the k-th entry of a history that
\* was built by k - 1 commits on the first entry
adjustmentsOfCommit(k) == IF k = 1 THEN initialAdjustmentsAt ELSE Len(initialHeap) + k

\* The history after n - 1 commits on an opened image
HistoryOfLength(n) == [k \in 1..n |-> EditorStateOf(Gray2x2, << >>, adjustmentsOfCommit(k))]

HistoryLengths == {1, 2, 3, MAX_HISTORY - 1, MAX_HISTORY}

\* The address of the object the commit of this handler call makes
newAdjustmentsAt == adjustmentsOfCommit(MAX_HISTORY + handlerCalls + 1)

HistoryInit ==
    /\ baseImageSrc = Gray2x2
    /\ layers = << >>
    /\ activeAdjustments = initialAdjustments
    /\ DrawInit
    /\ NoOp
    /\ NoRedraw
    /\ NoUi
    /\ heap = initialHeap
    /\ \E n \in HistoryLengths : \E i \in 1..n :
          history = [stack |-> HistoryOfLength(n), index |-> i]
    /\ liveAdjustments = Null
    /\ customPresets = << >>
    /\ timers = << >>
    /\ committed = << >>
    /\ liveValue = Null
    /\ handlerCalls = 0

\* commitChange(draft => ({ ...draft, adjustments: ... })) with a new object
CommitChange ==
    /\ HandlerCalled
    /\ history' = commitChange(history,
                               [currentState EXCEPT !.adjustments = newAdjustmentsAt], FALSE)
    /\ UNCHANGED <<heap, liveAdjustments, customPresets, timers, committed, liveValue>>

\* img.onload of applyDestructiveTransform: newDataUrl is the transformed image
ApplyDestructiveTransform ==
    /\ HandlerCalled
    /\ \E newDataUrl \in {Color2x1, Color3x3} :
          history' = commitChange(history,
                                  [currentState EXCEPT !.baseImageSrc = newDataUrl,
                                                       !.layers = << >>,
                                                       !.adjustments = initialAdjustmentsAt],
                                  TRUE)
    /\ UNCHANGED <<heap, liveAdjustments, customPresets, timers, committed, liveValue>>

\* reader.onload of handleFileChange
HandleFileChange ==
    /\ HandlerCalled
    /\ \E imgSrc \in {Gray2x2, White1x1} :
          history' = [stack |-> <<EditorStateOf(imgSrc, << >>, initialAdjustmentsAt)>>,
                      index |-> 1]
    /\ liveAdjustments' = Null
    /\ liveValue' = Null
    /\ UNCHANGED <<heap, customPresets, timers, committed>>

NextHistory ==
    \/ CommitChange
    \/ ApplyDestructiveTransform
    \/ Undo
    \/ Redo
    \/ ResetAll
    \/ HandleFileChange

SpecHistory == HistoryInit /\ [][NextHistory]_vars

(***************************************************************************)
(* The loading overlay.  applyAiAction, handleGenerateAiMask and           *)
(* applyDestructiveTransform set isLoading and go on in callbacks: each    *)
(* call is a task, at the await or the image load it is waiting for.       *)
(* What the environment decides is chosen in the step that meets it: the   *)
(* 2D context a canvas gives, the answer of the AI call, whether an image  *)
(* loads.                                                                  *)
(***************************************************************************)
MaxTasks == 2

TaskOf(kind, at, layerId) == [kind |-> kind, pc |-> at, layerId |-> layerId]

\* The positions no callback leaves: the function returned, an exception
\* left it, or the load it waits for failed with no onerror handler
TaskEnded(task) == task.pc \in {"done", "threw", "newImgFailed"}

\* addLayer: the layer Date.now() names, with no mask yet
newLayerOf(id) ==
    [id |-> id, isVisible |-> TRUE, maskSrc |-> NullSrc, isMaskInverted |-> FALSE]

withMask(layerList, id, newMaskSrc) ==
    [k \in 1..Len(layerList) |->
        IF layerList[k].id = id THEN [layerList[k] EXCEPT !.maskSrc = newMaskSrc]
        ELSE layerList[k]]

withoutLayer(layerList, id) == SelectSeq(layerList, LAMBDA l : l.id # id)

initialState == EditorStateOf(NullSrc, << >>, initialAdjustmentsAt)

LoadingInit ==
    /\ baseImageSrc = Gray2x2
    /\ layers = << >>
    /\ activeAdjustments = initialAdjustments
    /\ DrawInit
    /\ NoOp
    /\ NoRedraw
    /\ heap = initialHeap
    /\ \E src \in {NullSrc, Gray2x2} :
          history = [stack |-> <<EditorStateOf(src, << >>, initialAdjustmentsAt)>>,
                     index |-> 1]
    /\ liveAdjustments = Null
    /\ customPresets = << >>
    /\ timers = << >>
    /\ committed = << >>
    /\ liveValue = Null
    /\ handlerCalls = 0
    /\ isLoading = FALSE
    /\ tasks = << >>
    /\ isProcessing = FALSE
    /\ processingTimer = FALSE
    /\ commitTimers = << >>
    /\ effectPending = FALSE
    /\ redraws = << >>

LoadingUnchanged ==
    /\ UNCHANGED <<drawVars, opVars, redrawVars>>
    /\ UNCHANGED <<heap, liveAdjustments, customPresets, timers, committed, liveValue,
                   handlerCalls>>
    /\ UNCHANGED <<isProcessing, processingTimer, commitTimers, effectPending, redraws>>

\* applyAiAction up to `await drawCanvasRef.current()`
ApplyAiAction ==
    /\ Len(tasks) < MaxTasks
    /\ currentState.baseImageSrc.kind # "null"
    /\ ~isLoading
    /\ isLoading' = TRUE
    /\ tasks' = Append(tasks, TaskOf("applyAiAction", "drawCanvas", 0))
    /\ UNCHANGED history
    /\ LoadingUnchanged

\* handleGenerateAiMask up to `await drawCanvasRef.current()`
HandleGenerateAiMask ==
    /\ Len(tasks) < MaxTasks
    /\ currentState.baseImageSrc.kind # "null"
    /\ ~isLoading
    /\ history' = commitChange(history,
                               [currentState EXCEPT
                                   !.layers = Append(@, newLayerOf(Len(tasks) + 1))],
                               FALSE)
    /\ isLoading' = TRUE
    /\ tasks' = Append(tasks, TaskOf("handleGenerateAiMask", "drawCanvas", Len(tasks) + 1))
    /\ LoadingUnchanged

\* The catch and finally blocks of the two AI handlers
aiFailed(hist, task) ==
    IF task.kind = "handleGenerateAiMask"
    THEN commitChange(hist,
                      [hist.stack[hist.index] EXCEPT
                          !.layers = withoutLayer(@, task.layerId)],
                      FALSE)
    ELSE hist

\* drawCanvas has resolved (it catches its own errors); toDataURL of
\* canvasRef.current throws in the try block if the canvas is missing
AiFlattened(i) ==
    /\ tasks[i].pc = "drawCanvas"
    /\ \E canvasMounted \in BOOLEAN :
          IF canvasMounted
          THEN /\ tasks' = [tasks EXCEPT ![i].pc = "generateContent"]
               /\ UNCHANGED <<history, isLoading>>
          ELSE /\ tasks' = [tasks EXCEPT ![i].pc = "done"]
               /\ history' = aiFailed(history, tasks[i])
               /\ isLoading' = FALSE
    /\ LoadingUnchanged

\* ai.models.generateContent has settled: rejected, or resolved with or
\* without the image or mask asked for
AiSettled(i) ==
    /\ tasks[i].pc = "generateContent"
    /\ \E outcome \in {"rejected", "empty", "image"} :
          history' =
              CASE outcome = "rejected" -> aiFailed(history, tasks[i])
                [] outcome = "empty" ->
                      IF tasks[i].kind = "handleGenerateAiMask"
                      THEN aiFailed(history, tasks[i])
                      ELSE history
                [] OTHER ->
                      IF tasks[i].kind = "handleGenerateAiMask"
                      THEN commitChange(history,
                                        [currentState EXCEPT
                                            !.layers = withMask(@, tasks[i].layerId,
                                                                MaskOf("white", 2, 2))],
                                        FALSE)
                      ELSE commitChange(history,
                                        [initialState EXCEPT !.baseImageSrc = Color2x1],
                                        FALSE)
    /\ tasks' = [tasks EXCEPT ![i].pc = "done"]
    /\ isLoading' = FALSE
    /\ LoadingUnchanged

\* applyDestructiveTransform up to `img.onload = ...`: drawImage on a null
\* flattenedCtx throws after setIsLoading(true)
TransformStarted ==
    /\ Len(tasks) < MaxTasks
    /\ currentState.baseImageSrc.kind # "null"
    /\ isLoading' = TRUE
    /\ \E flattenedCtx \in BOOLEAN :
          tasks' = Append(tasks, TaskOf("applyDestructiveTransform",
                                        IF flattenedCtx THEN "imgLoad" ELSE "threw", 0))
    /\ UNCHANGED history
    /\ LoadingUnchanged

\* The flattened image has loaded or failed.  img.onerror and a null tempCtx
\* in img.onload clear isLoading; otherwise the transformed image is
\* committed and newImg begins to load
TransformFlattenedSettled(i) ==
    /\ tasks[i].pc = "imgLoad"
    /\ \E outcome \in {"onerror", "noTempCtx", "onload"} :
          IF outcome = "onload"
          THEN /\ \E newDataUrl \in {Color2x1, Color3x3} :
                     history' = commitChange(history,
                                             [currentState EXCEPT
                                                 !.baseImageSrc = newDataUrl,
                                                 !.layers = << >>,
                                                 !.adjustments = initialAdjustmentsAt],
                                             TRUE)
               /\ tasks' = [tasks EXCEPT ![i].pc = "newImgLoad"]
               /\ UNCHANGED isLoading
          ELSE /\ tasks' = [tasks EXCEPT ![i].pc = "done"]
               /\ isLoading' = FALSE
               /\ UNCHANGED history
    /\ LoadingUnchanged

\* newImg.onload
TransformedLoaded(i) ==
    /\ tasks[i].pc = "newImgLoad"
    /\ tasks' = [tasks EXCEPT ![i].pc = "done"]
    /\ isLoading' = FALSE
    /\ UNCHANGED history
    /\ LoadingUnchanged

\* newImg fails to load: it has no onerror handler, nothing runs
TransformedFailed(i) ==
    /\ tasks[i].pc = "newImgLoad"
    /\ tasks' = [tasks EXCEPT ![i].pc = "newImgFailed"]
    /\ UNCHANGED <<history, isLoading>>
    /\ LoadingUnchanged

TaskSteps ==
    \/ \E i \in 1..Len(tasks) : AiFlattened(i)
    \/ \E i \in 1..Len(tasks) : AiSettled(i)
    \/ \E i \in 1..Len(tasks) : TransformFlattenedSettled(i)
    \/ \E i \in 1..Len(tasks) : TransformedLoaded(i)
    \/ \E i \in 1..Len(tasks) : TransformedFailed(i)

NextLoading ==
    \/ ApplyAiAction
    \/ HandleGenerateAiMask
    \/ TransformStarted
    \/ TaskSteps

SpecLoading == LoadingInit /\ [][NextLoading]_vars

\* Every promise settles and every image load ends
SpecLoadingFair == SpecLoading /\ WF_vars(TaskSteps)

(***************************************************************************)
(* The processing indicator.  The commit handlers call startProcessing     *)
(* and arm a 10 ms timeout that commits; a change of currentState or       *)
(* activeAdjustments reruns the redraw effect on the next render, and the  *)
(* redraw of an effect that has not been cleaned up calls endProcessing    *)
(* when its drawCanvas has settled.  Timeouts, renders, frames and the     *)
(* ends of drawCanvas calls interleave freely.                             *)
(***************************************************************************)
MaxProcessingCalls == 3

\* processingTimerRef.current after endProcessing: the timeout is cleared
endProcessingKeepsTimer(armed) == armed

endProcessing(armed) == FALSE

CommitTimer(adjustments, clearsLive) ==
    [adjustments |-> adjustments, clearsLive |-> clearsLive]

ProcessingInit ==
    /\ baseImageSrc = Gray2x2
    /\ layers = << >>
    /\ activeAdjustments = initialAdjustments
    /\ DrawInit
    /\ NoOp
    /\ calls = << >>
    /\ frameRequested = TRUE
    /\ heap = initialHeap
    /\ history = [stack |-> <<EditorStateOf(Gray2x2, << >>, initialAdjustmentsAt)>>,
                  index |-> 1]
    /\ liveAdjustments = Null
    /\ customPresets = << >>
    /\ timers = << >>
    /\ committed = << >>
    /\ liveValue = Null
    /\ handlerCalls = 0
    /\ isLoading = FALSE
    /\ tasks = << >>
    /\ isProcessing = FALSE
    /\ processingTimer = FALSE
    /\ commitTimers = << >>
    /\ effectPending = FALSE
    /\ redraws = << >>

ProcessingUnchanged ==
    /\ UNCHANGED <<drawVars, opVars, calls>>
    /\ UNCHANGED <<heap, customPresets, timers, committed, liveValue>>
    /\ UNCHANGED <<isLoading, tasks>>

\* handleFilterChange, handleHslChange, handleCurveChange: a new live object
LiveChanged ==
    /\ handlerCalls < MaxProcessingCalls
    /\ handlerCalls' = handlerCalls + 1
    /\ liveAdjustments' = newAdjustmentsAt
    /\ effectPending' = TRUE
    /\ UNCHANGED <<history, isProcessing, processingTimer, commitTimers, redraws,
                   frameRequested>>
    /\ ProcessingUnchanged

\* handleFilterCommit, handleHslCommit
SliderCommitted ==
    /\ handlerCalls < MaxProcessingCalls
    /\ handlerCalls' = handlerCalls + 1
    /\ processingTimer' = TRUE
    /\ commitTimers' = Append(commitTimers, CommitTimer(newAdjustmentsAt, FALSE))
    /\ liveAdjustments' = Null
    /\ effectPending' = (effectPending \/ liveAdjustments # Null)
    /\ UNCHANGED <<history, isProcessing, redraws, frameRequested>>
    /\ ProcessingUnchanged

\* handleCommitUpdate with live adjustments
LiveCommitted ==
    /\ handlerCalls < MaxProcessingCalls
    /\ liveAdjustments # Null
    /\ handlerCalls' = handlerCalls + 1
    /\ processingTimer' = TRUE
    /\ commitTimers' = Append(commitTimers, CommitTimer(liveAdjustments, TRUE))
    /\ UNCHANGED <<history, liveAdjustments, effectPending, isProcessing, redraws,
                   frameRequested>>
    /\ ProcessingUnchanged

\* The 10 ms timeout of a commit handler runs
CommitTimerFires ==
    /\ commitTimers # << >>
    /\ history' = commitChange(history,
                               [currentState EXCEPT
                                   !.adjustments = Head(commitTimers).adjustments],
                               FALSE)
    /\ liveAdjustments' = IF Head(commitTimers).clearsLive THEN Null ELSE liveAdjustments
    /\ commitTimers' = Tail(commitTimers)
    /\ effectPending' = TRUE
    /\ UNCHANGED <<handlerCalls, isProcessing, processingTimer, redraws, frameRequested>>
    /\ ProcessingUnchanged

\* The 500 ms timeout of startProcessing runs
ProcessingTimerFires ==
    /\ processingTimer
    /\ processingTimer' = FALSE
    /\ isProcessing' = TRUE
    /\ UNCHANGED <<history, liveAdjustments, handlerCalls, commitTimers, effectPending,
                   redraws, frameRequested>>
    /\ ProcessingUnchanged

\* The render after a change: the cleanup of the last effect sets its
\* isCancelled and cancels its frame, the effect requests a frame
EffectRuns ==
    /\ effectPending
    /\ effectPending' = FALSE
    /\ redraws' = [k \in 1..Len(redraws) |-> TRUE]
    /\ frameRequested' = TRUE
    /\ UNCHANGED <<history, liveAdjustments, handlerCalls, isProcessing, processingTimer,
                   commitTimers>>
    /\ ProcessingUnchanged

\* The frame runs redraw, which awaits drawCanvasRef.current()
RedrawStarted ==
    /\ frameRequested
    /\ frameRequested' = FALSE
    /\ redraws' = Append(redraws, FALSE)
    /\ UNCHANGED <<history, liveAdjustments, handlerCalls, isProcessing, processingTimer,
                   commitTimers, effectPending>>
    /\ ProcessingUnchanged

\* drawCanvas of a redraw has settled (it catches its errors)
RedrawFinished(i) ==
    /\ redraws' = [k \in 1..(Len(redraws) - 1) |->
                      IF k < i THEN redraws[k] ELSE redraws[k + 1]]
    /\ IF redraws[i]
       THEN UNCHANGED <<isProcessing, processingTimer>>
       ELSE /\ processingTimer' = endProcessing(processingTimer)
            /\ isProcessing' = FALSE
    /\ UNCHANGED <<history, liveAdjustments, handlerCalls, commitTimers, effectPending,
                   frameRequested>>
    /\ ProcessingUnchanged

ProcessingSteps ==
    \/ CommitTimerFires
    \/ ProcessingTimerFires
    \/ EffectRuns
    \/ RedrawStarted
    \/ \E i \in 1..Len(redraws) : RedrawFinished(i)

NextProcessing ==
    \/ LiveChanged
    \/ SliderCommitted
    \/ LiveCommitted
    \/ ProcessingSteps

SpecProcessing == ProcessingInit /\ [][NextProcessing]_vars

\* Every timeout runs, every render and frame happens, every drawCanvas settles
SpecProcessingFair == SpecProcessing /\ WF_vars(ProcessingSteps)

(***************************************************************************)
(* Properties.                                                             *)
(***************************************************************************)

\* drawCanvas has run to its end with every image loaded
DrawnToEnd == pc = "done" /\ errors = << >> /\ baseImageSrc.kind = "image"

\* The place of a stage in the contract's order; the steps of the
\* compositing stage all come last
StageRank(name) ==
    CASE name = "css"               -> 0
      [] name = "exposure"          -> 1
      [] name = "temperature"       -> 2
      [] name = "vibrance"          -> 3
      [] name = "dehaze"            -> 4
      [] name = "highlightsShadows" -> 5
      [] name = "whitesBlacks"      -> 6
      [] name = "curves"            -> 7
      [] name = "hsl"               -> 8
      [] name = "haze"              -> 9
      [] name = "sharpen"           -> 10
      [] name = "grain"             -> 11
      [] name \in {"draw", "mask", "composite"} -> 12

\* C1: in every drawCanvas invocation the stages that run do so in the
\* order CSS filter, exposure, temperature, vibrance, dehaze,
\* highlights/shadows, whites/blacks, curves, selective HSL, haze, sharpen,
\* grain; none runs twice, none runs before an earlier one, and the mask
\* compositing steps come only after all of them.
C1_FixedStageOrder ==
    /\ stageLog # << >> => stageLog[1] = "css"
    /\ \A i, j \in 1..Len(stageLog) :
          i < j => \/ StageRank(stageLog[i]) < StageRank(stageLog[j])
                   \/ StageRank(stageLog[i]) = 12 /\ StageRank(stageLog[j]) = 12

C1_Witness ==
    /\ pc = "done"
    /\ stageLog = <<"css", "exposure", "grain", "mask", "composite">>

\* A stage's inputs differ from their identity values
StageInputDiffers(name, a) ==
    CASE name = "exposure"          -> a.filters.exposure # 0
      [] name = "temperature"       -> a.filters.temperature # 0
      [] name = "vibrance"          -> a.filters.vibrance # 0
      [] name = "dehaze"            -> a.filters.dehaze # 0
      [] name = "highlightsShadows" -> a.filters.highlights # 0 \/ a.filters.shadows # 0
      [] name = "whitesBlacks"      -> a.filters.whites # 0 \/ a.filters.blacks # 0
      [] name = "curves"            -> \E c \in {"rgb", "red", "green", "blue"} :
                                          a.curves[c] # initialCurve
      [] name = "hsl"               -> \E c \in HslColors :
                                          a.hsl[c] # [h |-> 0, s |-> 0, l |-> 0]
      [] name = "haze"              -> a.filters.haze # 0
      [] name = "sharpen"           -> a.filters.sharpen # 0
      [] name = "grain"             -> a.filters.grain # 0

PixelStageNames ==
    {"exposure", "temperature", "vibrance", "dehaze", "highlightsShadows",
     "whitesBlacks", "curves", "hsl", "haze", "sharpen", "grain"}

\* C2: for every Adjustments value in the documented domains a pixel stage
\* is invoked by drawCanvas if and only if its inputs differ from identity,
\* and the needsPixelManipulation gate is true whenever some stage's inputs
\* differ from identity.
C2_StageRunsIffEdited ==
    "css" \in Range(stageLog) =>
        /\ \A name \in PixelStageNames :
              name \in Range(stageLog) <=> StageInputDiffers(name, activeAdjustments)
        /\ (\E name \in PixelStageNames : StageInputDiffers(name, activeAdjustments))
              => needsPixelManipulation(activeAdjustments)

C2_Witness ==
    /\ pc = "done"
    /\ activeAdjustments.filters.hazeSpread = 0
    /\ activeAdjustments.filters.haze = 0
    /\ activeAdjustments.curves.rgb = ClipCurve
    /\ stageLog = <<"css", "curves", "draw">>

LayerOrders(n) == {f \in [1..n -> 1..n] : \A a, b \in 1..n : f[a] = f[b] => a = b}

\* The canvas with the base drawn on it, as the masked branch leaves it
\* before the first mask is awaited
BaseOnCanvas ==
    drawImage(NewCanvas(baseImageSrc.w, baseImageSrc.h), ImageDataOf(baseImageSrc),
              "source-over")

\* C4: mask combination is order-independent: every permutation of the
\* visible masked layers gives the same composite mask and the same final
\* image.
C4_MaskOrderIndependent ==
    (DrawnToEnd /\ visibleLayers # << >>) =>
        \A f \in LayerOrders(Len(visibleLayers)) :
            LET permuted == [k \in 1..Len(visibleLayers) |-> visibleLayers[f[k]]]
                composite == maskCompositeOf(permuted, Len(permuted), canvas.w, canvas.h)
            IN  /\ composite = maskCompositeCanvas
                /\ compositeMasked(BaseOnCanvas, adjustedImageCanvas, composite) = canvas

\* C5: with at least one visible masked layer the final image is the
\* original with the adjusted image blended in by the composite mask: where
\* the composite mask is 0 the final pixel is the original pixel, where it
\* is 255 the final pixel is the adjusted pixel.
C5_MaskedBlend ==
    (DrawnToEnd /\ visibleLayers # << >>) =>
        \A i \in 1..Len(canvas.px) :
            /\ maskCompositeCanvas.px[i] = Black => canvas.px[i] = baseImageSrc.px[i]
            /\ maskCompositeCanvas.px[i] = White => canvas.px[i] = adjustedImageCanvas.px[i]

\* What a mask pixel shows over black: its colour weighted by its alpha
MaskIntensity(p, c) == RoundDiv(p[c] * p[4], 255)

\* C6: the composite mask is the per-pixel maximum of the visible layers'
\* masks starting from black, and where it is all white the final image is
\* the adjusted image.
C6_CompositeIsMaximum ==
    (DrawnToEnd /\ visibleLayers # << >>) =>
        /\ \A i \in 1..Len(canvas.px), c \in 1..3 :
              LET values == {0} \cup
                      {MaskIntensity(tempMaskCanvas(visibleLayers[k], canvas.w,
                                                    canvas.h).px[i], c) :
                          k \in 1..Len(visibleLayers)}
              IN  /\ maskCompositeCanvas.px[i][c] \in values
                  /\ \A v \in values : v <= maskCompositeCanvas.px[i][c]
        /\ (\A i \in 1..Len(canvas.px) : maskCompositeCanvas.px[i] = White)
              => canvas = adjustedImageCanvas

\* C7: when no layer is both visible and masked the final output is the
\* adjusted buffer, unmodified: no mask composite is built, whatever the
\* hidden and the mask-less layers hold.
C7_NoMaskIsAdjusted ==
    (/\ pc = "done"
     /\ baseImageSrc.kind = "image"
     /\ \A k \in 1..Len(layers) : ~(layers[k].isVisible /\ layers[k].maskSrc.kind # "null"))
        => /\ canvas = adjustedImageCanvas
           /\ maskCompositeCanvas = NoCanvas
           /\ errors = << >>

C7_Witness ==
    /\ pc = "done"
    /\ baseImageSrc = Gray2x2
    /\ layers = <<LayerOf(FALSE, "white", TRUE, 2, 2), LayerOf(TRUE, "none", TRUE, 2, 2)>>
    /\ activeAdjustments.filters.exposure = 100
    /\ canvas = adjustedImageCanvas
    /\ canvas.px # baseImageSrc.px

\* C8: an inverted layer contributes the per-pixel complement of its mask:
\* inverted white contributes nothing, inverted black contributes full
\* coverage.
C8_InvertedIsComplement ==
    (DrawnToEnd /\ Len(visibleLayers) = 1 /\ visibleLayers[1].isMaskInverted) =>
        LET plain == maskCompositeOf(<<[visibleLayers[1] EXCEPT !.isMaskInverted = FALSE]>>,
                                     1, canvas.w, canvas.h)
        IN  \A i \in 1..Len(canvas.px), c \in 1..3 :
                maskCompositeCanvas.px[i][c] = 255 - plain.px[i][c]

\* C9: when a visible layer's mask has other dimensions than the base
\* image, drawCanvas fails with a DimensionMismatch error and composites
\* nothing.
C9_DimensionMismatchFailsFast ==
    (/\ pc = "done"
     /\ baseImageSrc.kind = "image"
     /\ \E k \in 1..Len(layers) :
           /\ layers[k].isVisible
           /\ layers[k].maskSrc.kind = "image"
           /\ (layers[k].maskSrc.w # baseImageSrc.w \/ layers[k].maskSrc.h # baseImageSrc.h))
        => /\ "DimensionMismatch" \in Range(errors)
           /\ "composite" \notin Range(stageLog)

\* C10: every output channel of every pixel operator lies in [0,255], and
\* so does every entry of a LUT built by createLutFromPoints, its forced
\* last entry included.
C10_Clamped ==
    /\ opName \in PixelStageNames =>
          \A i \in 1..Len(opOutput.px), c \in 1..4 : opOutput.px[i][c] \in 0..255
    /\ opName = "createLutFromPoints" =>
          \A i \in 0..255 : 0 <= opOutput[i] /\ opOutput[i] <= 255 * FX

C10_Witness ==
    /\ opName = "createLutFromPoints"
    /\ opArgs = <<ClipCurve>>
    /\ lutVal(uniquePoints(ClipCurve), 0) < 0
    /\ lutVal(uniquePoints(ClipCurve), 254) > 255 * FX
    /\ opOutput[0] = 0
    /\ opOutput[254] = 255 * FX
    /\ opOutput[255] = 255 * FX

(***************************************************************************)
(* States in which the compositor departs from the behaviour described     *)
(* for it.                                                                 *)
(***************************************************************************)
\* An opaque grey mask and a soft brush stroke: the composite is 192 at the
\* first pixel, and 128 when the two layers change places
C4_Divergence ==
    /\ pc = "done"
    /\ baseImageSrc = Gray2x2
    /\ layers = <<LayerOf(TRUE, "gray", FALSE, 2, 2), LayerOf(TRUE, "brush", FALSE, 2, 2)>>
    /\ maskCompositeCanvas.px[1] = <<192, 192, 192, 255>>
    /\ maskCompositeOf(<<layers[2], layers[1]>>, 2, 2, 2).px[1] = <<128, 128, 128, 255>>

\* One visible all-black mask: the composite mask is 0 everywhere and the
\* canvas holds the adjusted image, not the original
C5_Divergence ==
    /\ pc = "done"
    /\ baseImageSrc = Gray2x2
    /\ layers = <<LayerOf(TRUE, "black", FALSE, 2, 2)>>
    /\ activeAdjustments.filters.exposure = 100
    /\ \A i \in 1..4 : maskCompositeCanvas.px[i] = Black
    /\ \A i \in 1..4 : canvas.px[i] = <<255, 255, 255, 255>>
    /\ canvas = adjustedImageCanvas

\* Two soft brush strokes of intensity 128 combine to 192
C6_Divergence ==
    /\ pc = "done"
    /\ baseImageSrc = Gray2x2
    /\ layers = <<LayerOf(TRUE, "brush", FALSE, 2, 2), LayerOf(TRUE, "brush", FALSE, 2, 2)>>
    /\ MaskIntensity(tempMaskCanvas(layers[1], 2, 2).px[1], 1) = 128
    /\ maskCompositeCanvas.px[1] = <<192, 192, 192, 255>>

\* An inverted opaque black mask is cleared by the xor fill and leaves the
\* composite mask black
C8_Divergence ==
    /\ pc = "done"
    /\ baseImageSrc = Gray2x2
    /\ layers = <<LayerOf(TRUE, "black", TRUE, 2, 2)>>
    /\ \A i \in 1..4 : tempMaskCanvas(layers[1], 2, 2).px[i] = Transparent
    /\ \A i \in 1..4 : maskCompositeCanvas.px[i] = Black

\* A 1x1 mask over a 2x2 base: no error, the mask padded with transparency
\* and composited
C9_Divergence ==
    /\ pc = "done"
    /\ baseImageSrc = Gray2x2
    /\ layers = <<LayerOf(TRUE, "small", FALSE, 2, 2)>>
    /\ errors = << >>
    /\ "composite" \in Range(stageLog)
    /\ maskCompositeCanvas.px = <<White, Black, Black, Black>>


(***************************************************************************)
(* C11: applyTemperature with amount t maps each pixel (R,G,B,A) to        *)
(* (clamp(R + t/2), G, clamp(B - t/2), A), clamped to [0,255] and stored   *)
(* as a byte: the stored byte equals the clamped value when t is even and  *)
(* is a nearest byte when t is odd.  A 1x1 white pixel with temperature    *)
(* 100 becomes (255,255,205).                                              *)
(***************************************************************************)
C11_TemperatureShift ==
    opName = "temperature" =>
        LET t == opArgs[1] IN
        /\ \A i \in 1..Len(opInput.px) :
              LET p == opInput.px[i]
                  q == opOutput.px[i]
                  r == Max2(0, Min2(255 * FX, p[1] * FX + (t * FX) \div 2))
                  b == Max2(0, Min2(255 * FX, p[3] * FX - (t * FX) \div 2))
              IN  /\ q[2] = p[2]
                  /\ q[4] = p[4]
                  /\ q[1] \in 0..255
                  /\ q[3] \in 0..255
                  /\ 2 * Abs(q[1] * FX - r) <= FX
                  /\ 2 * Abs(q[3] * FX - b) <= FX
                  /\ t % 2 = 0 => q[1] * FX = r /\ q[3] * FX = b
        /\ (opInput = ImageDataOf(White1x1) /\ t = 100) =>
              opOutput.px = <<(<<255, 255, 205, 255>>)>>

C11_Witness ==
    /\ opName = "temperature"
    /\ opArgs = <<100>>
    /\ opInput = ImageDataOf(White1x1)
    /\ opOutput.px = <<(<<255, 255, 205, 255>>)>>

(***************************************************************************)
(* C12: the default curve [(0,0),(255,255)] yields the identity LUT:       *)
(* createLutFromPoints returns lut with lut[i] = i for every i in 0..255,  *)
(* as the doubles the table holds and not only to the thousandth.          *)
(***************************************************************************)
C12_DefaultCurveIsIdentity ==
    (opName = "createLutFromPoints" /\ opArgs = <<initialCurve>>) =>
        \A i \in 0..255 :
            opOutput[i] = i * FX /\ lutRoundingError(opArgs[1], i) = 0

\* The table of the default curve: entry 128 is 128 to the thousandth and a
\* last place below it, entry 127 a last place above 127, the ends exact
C12_Divergence ==
    /\ opName = "createLutFromPoints"
    /\ opArgs = <<initialCurve>>
    /\ opOutput[128] = 128 * FX
    /\ lutRoundingError(opArgs[1], 128) < 0
    /\ lutRoundingError(opArgs[1], 127) > 0
    /\ lutRoundingError(opArgs[1], 0) = 0
    /\ lutRoundingError(opArgs[1], 255) = 0

(***************************************************************************)
(* C13: for any control points with x and y in [0,255] whose y values are  *)
(* non-decreasing in x order, the LUT of createLutFromPoints satisfies     *)
(* lut[i] <= lut[i+1] for every i in 0..254, before the first point, after *)
(* the last point and at the forced last entry lut[255] included.          *)
(***************************************************************************)
InCurveDomain(points) ==
    \A k \in 1..Len(points) : points[k].x \in 0..255 /\ points[k].y \in 0..255

NonDecreasingInX(points) ==
    \A j, k \in 1..Len(points) : points[j].x < points[k].x => points[j].y <= points[k].y

C13_MonotoneLut ==
    (/\ opName = "createLutFromPoints"
     /\ InCurveDomain(opArgs[1])
     /\ NonDecreasingInX(opArgs[1])) =>
        \A i \in 0..254 : opOutput[i] <= opOutput[i + 1]

\* The two-point curve (100,50),(150,200) rises to the clamp after its last
\* point, and the forced last entry falls back to 200
C13_Divergence ==
    /\ opName = "createLutFromPoints"
    /\ opArgs = <<ShortCurve>>
    /\ InCurveDomain(ShortCurve)
    /\ NonDecreasingInX(ShortCurve)
    /\ opOutput[254] = 255 * FX
    /\ opOutput[255] = 200 * FX

HistogramChannels == {"rgb", "red", "green", "blue"}

IsUniform(imageData) ==
    /\ Len(imageData.px) > 0
    /\ \A k \in 1..Len(imageData.px) : imageData.px[k] = imageData.px[1]

C17_AlphaUntouched ==
    opName \in PixelStageNames \cup {"pipeline"} =>
        /\ Len(opOutput.px) = Len(opInput.px)
        /\ \A i \in 1..Len(opInput.px) : opOutput.px[i][4] = opInput.px[i][4]

\* All eleven stages ran on the translucent sample and changed its colours
C17_Witness ==
    /\ opName = "pipeline"
    /\ opArgs[1] = AllStagesEdited
    /\ opInput = ImageDataOf(Translucent2x2)
    /\ \A i \in 1..4 : opOutput.px[i][4] = Translucent2x2.px[i][4]
    /\ \E i \in 1..4 : \E c \in 1..3 : opOutput.px[i][c] # opInput.px[i][c]
    /\ pixelStages(Len(pixelStageOrder), opInput,
                   getAdjustmentsCss(AllStagesEdited).pixelFilters,
                   opArgs[2]).log = <<"css">> \o pixelStageOrder

(***************************************************************************)
(* C18: a superseded call's result is discarded: once every call of        *)
(* drawCanvas has finished and no frame is pending, the canvas holds what  *)
(* drawCanvas draws for the most recent state and adjustments, never the   *)
(* output of a stale call or a mixture with it.                            *)
(***************************************************************************)
\* What one call of drawCanvas, left alone, draws for a state
canvasAfterMaskLoop(baseImage, adjusted, visible) ==
    IF Len(visible) = 0 THEN canvasAfterBase(baseImage, adjusted, visible)
    ELSE compositeMasked(canvasAfterBase(baseImage, adjusted, visible), adjusted,
                         maskCompositeOf(visible, Len(visible), baseImage.w, baseImage.h))

drawnAlone(state) ==
    canvasAfterMaskLoop(
        ImageDataOf(state.baseImageSrc),
        adjustImage(ImageDataOf(state.baseImageSrc), state.adjustments,
                    NoRandom(state.baseImageSrc)).imageData,
        SelectSeq(state.layers, isVisibleWithMask))

Loadable(state) ==
    /\ state.baseImageSrc.kind = "image"
    /\ \A k \in 1..Len(state.layers) : state.layers[k].maskSrc.kind # "broken"

Settled == ~frameRequested /\ \A i \in 1..Len(calls) : calls[i].pc = "done"

C18_StaleResultDiscarded ==
    (Settled /\ Len(calls) > 0 /\ Loadable(currentEditorState)) =>
        canvas = drawnAlone(currentEditorState)

\* The call for the masked, brightened state was overtaken by the call for
\* the plain state and finished last: the canvas shows the brightened image
C18_Divergence ==
    /\ Settled
    /\ Len(calls) = 2
    /\ calls[1].adjustments # initialAdjustments
    /\ currentEditorState = EditorStateOf(Gray2x2, << >>, initialAdjustments)
    /\ calls[2].adjustments = initialAdjustments
    /\ drawnAlone(currentEditorState).px = [i \in 1..4 |-> <<128, 128, 128, 255>>]
    /\ canvas.px = [i \in 1..4 |-> <<255, 255, 255, 255>>]
\* C19: Adjustments values are immutable.  Whatever handlers have run (live
\* filter, HSL and curve changes, commits, preset save and apply, undo, redo,
\* reset), every history entry's adjustments still read exactly as they did
\* when the entry was committed, liveAdjustments reads as it did when it was
\* set, and the module constant initialAdjustments is unchanged; so undo
\* restores the committed value.
C19_AdjustmentsImmutable ==
    /\ Len(committed) = Len(history.stack)
    /\ \A k \in 1..Len(history.stack) :
          deref(heap, history.stack[k].adjustments) = committed[k]
    /\ liveAdjustments # Null => deref(heap, liveAdjustments) = liveValue
    /\ deref(heap, initialAdjustmentsAt) = initialAdjustments
    /\ \A a \in 1..Len(initialHeap) : heap[a] = initialHeap[a]

\* Edits were committed on top of the first entry and undo went back to it:
\* the restored entry differs from the one undone and reads as committed
C19_Witness ==
    /\ history.index < Len(history.stack)
    /\ handlerCalls >= 3
    /\ committed[history.index] # committed[history.index + 1]
    /\ deref(heap, currentState.adjustments) = committed[history.index]
    /\ Len(heap) > Len(initialHeap)

\* C20: grain is a bounded deviation.  For every amount in 1..100 and every
\* draw of Math.random(), the noise of a pixel is at most amount * 2.55 / 2
\* in size, so each channel's sum data[i] + noise, before it is clamped and
\* stored, is within that bound of its input; the three colour channels of a
\* pixel are stored from their inputs plus that one noise value, which puts
\* the stored byte within the bound plus the half unit of the store's
\* rounding; with amount 0 applyGrain returns its input, and the pixel
\* stages of drawCanvas run grain exactly when grain > 0.
C20_GrainBoundedDeviation ==
    /\ opName = "grain" =>
          \A i \in 1..Len(opInput.px) :
              LET amount == opArgs[1]
                  noise == grainNoise(amount, opArgs[2][i])
              IN  IF amount = 0 THEN opOutput.px[i] = opInput.px[i]
                  ELSE /\ 2 * Abs(noise) <= amount * 2550
                       /\ \A c \in 1..3 :
                            /\ opOutput.px[i][c] =
                                   ToUint8Clamp(clamp255(opInput.px[i][c] * FX + noise))
                            /\ 2 * FX * Abs(opOutput.px[i][c] - opInput.px[i][c])
                                   <= amount * 2550 + FX
    /\ opName = "pipeline" =>
          ("grain" \in Range(pixelStages(Len(pixelStageOrder), opInput,
                                         getAdjustmentsCss(opArgs[1]).pixelFilters,
                                         opArgs[2]).log))
              <=> opArgs[1].filters.grain > 0

\* applyGrain has run with a positive amount and extreme draws, one pixel
\* took the largest negative noise and another a positive one, and no
\* channel of either was clamped
C20_Witness ==
    /\ opName = "grain"
    /\ opArgs[1] = 50
    /\ \E i, j \in 1..Len(opInput.px) :
          /\ opArgs[2][i] = 0
          /\ opArgs[2][j] = 999
          /\ \A c \in 1..3 :
                /\ opOutput.px[i][c] < opInput.px[i][c]
                /\ opOutput.px[i][c] > 0
                /\ opOutput.px[j][c] > opInput.px[j][c]
                /\ opOutput.px[j][c] < 255

\* The 3x3 kernel of applySharpen at strength s, row by row, in thousandths
sharpenKernel(s) == <<0, 0 - s, 0, 0 - s, FX + 4 * s, 0 - s, 0, 0 - s, 0>>

\* The convolution of channel c at column x, row y of the image before the
\* pass, over its nine neighbours
RECURSIVE kernelSum(_, _, _, _, _, _)
kernelSum(before, s, x, y, c, ki) ==
    IF ki = 0 THEN 0
    ELSE kernelSum(before, s, x, y, c, ki - 1)
         + before.px[(y + ((ki - 1) \div 3) - 1) * before.w
                     + (x + ((ki - 1) % 3) - 1) + 1][c] * sharpenKernel(s)[ki]

\* C21: applySharpen leaves every pixel of the outermost one-pixel border as
\* it was, so an image narrower or lower than 3 pixels is unchanged; every
\* interior pixel's colour channels are the clamped and stored 3x3
\* convolution of the buffer as it was before the pass (centre 1 + 4s, the
\* four direct neighbours -s, diagonals 0), and its alpha is kept.
C21_SharpenFromSnapshot ==
    opName = "sharpen" =>
        /\ opOutput.w = opInput.w /\ opOutput.h = opInput.h
        /\ Len(opOutput.px) = Len(opInput.px)
        /\ \A i \in 1..Len(opInput.px) :
              LET x == (i - 1) % opInput.w
                  y == (i - 1) \div opInput.w
                  s == opArgs[1] * 10
              IN  IF opArgs[1] = 0 \/ x = 0 \/ y = 0
                     \/ x = opInput.w - 1 \/ y = opInput.h - 1
                  THEN opOutput.px[i] = opInput.px[i]
                  ELSE /\ \A c \in 1..3 :
                            opOutput.px[i][c] =
                                ToUint8Clamp(clamp255(kernelSum(opInput, s, x, y, c, 9)))
                       /\ opOutput.px[i][4] = opInput.px[i][4]
        /\ (opInput.w < 3 \/ opInput.h < 3) => opOutput = opInput

\* A 4x4 image was sharpened: its four interior pixels are neighbours of each
\* other, two of them changed, and its border did not
C21_Witness ==
    /\ opName = "sharpen"
    /\ opArgs[1] = 50
    /\ opInput.w = 4 /\ opInput.h = 4
    /\ opOutput.px[6] # opInput.px[6]
    /\ opOutput.px[7] # opInput.px[7]
    /\ opOutput.px[1] = opInput.px[1]
    /\ opOutput.px[8] = opInput.px[8]

\* The points of a curve that no later point of the curve shares an x with,
\* in the order given
RECURSIVE keptLast(_, _)
keptLast(points, k) ==
    IF k > Len(points) THEN << >>
    ELSE (IF \E j \in (k + 1)..Len(points) : points[j].x = points[k].x
          THEN << >> ELSE <<points[k]>>) \o keptLast(points, k + 1)

\* A sequence of points with the point p put in before the first point whose
\* x is larger
RECURSIVE insertByX(_, _)
insertByX(sorted, p) ==
    IF sorted = << >> THEN <<p>>
    ELSE IF p.x < Head(sorted).x THEN <<p>> \o sorted
    ELSE <<Head(sorted)>> \o insertByX(Tail(sorted), p)

RECURSIVE sortByX(_)
sortByX(points) ==
    IF points = << >> THEN << >>
    ELSE insertByX(sortByX(Tail(points)), Head(points))

DistinctX(points) ==
    \A j, k \in 1..Len(points) : points[j].x = points[k].x => j = k

\* C22: createLutFromPoints deduplicates by x before it interpolates.  The
\* table of a curve is the table of its points without those that a later
\* point shares an x with (the last y given for an x is the one used), put
\* in order of x: so a curve with distinct x gives one table in every
\* order; the empty curve gives the identity table, and a curve with one x
\* gives the constant table of its y clamped to [0,255].
C22_DeduplicatesByX ==
    opName = "createLutFromPoints" =>
        LET points == opArgs[1]
            kept == sortByX(keptLast(points, 1))
        IN  /\ DistinctX(kept)
            /\ uniquePoints(points) = kept
            /\ opOutput = createLutFromPoints(kept)
            /\ points = << >> => \A i \in 0..255 : opOutput[i] = i * FX
            /\ Len(kept) = 1 =>
                  \A i \in 0..255 : opOutput[i] = clamp255(kept[1].y * FX)
            /\ Len(kept) >= 2 =>
                  \A k \in 1..(Len(kept) - 1) :
                      opOutput[kept[k].x] = clamp255(kept[k].y * FX)

\* A curve was given out of order with two points on one x: the table takes
\* the y of the later one there, and not that of the earlier
C22_Witness ==
    /\ opName = "createLutFromPoints"
    /\ \E j, k \in 1..Len(opArgs[1]) :
          /\ j < k
          /\ opArgs[1][j].x = opArgs[1][k].x
          /\ opArgs[1][j].y # opArgs[1][k].y
          /\ opArgs[1][j].x \in 1..254
          /\ opOutput[opArgs[1][k].x] = opArgs[1][k].y * FX
          /\ opOutput[opArgs[1][k].x] # opArgs[1][j].y * FX
    /\ \E k \in 1..(Len(opArgs[1]) - 1) : opArgs[1][k].x > opArgs[1][k + 1].x

\* C23: neutral pixels bypass the channel curves.  In applyCurves every pixel
\* whose saturation is at most 0.05 leaves with lutRgb of each of its input
\* channels, whatever the red, green and blue curves are (default or not),
\* and so a gray pixel leaves gray.
C23_NeutralBypassesChannelCurves ==
    opName = "curves" =>
        \A i \in 1..Len(opInput.px) :
            LET p == opInput.px[i]
                lutRgb == createLutFromPoints(opArgs[1].rgb)
            IN  rgbToHsl(p[1], p[2], p[3])[2] <= 50 =>
                    /\ \A c \in 1..3 : opOutput.px[i][c] = ToUint8Clamp(lutRgb[p[c]])
                    /\ (p[1] = p[2] /\ p[2] = p[3]) =>
                          (opOutput.px[i][1] = opOutput.px[i][2]
                              /\ opOutput.px[i][2] = opOutput.px[i][3])

\* The S curve on the rgb channel alone, on four pixels of gray 128: lutRgb
\* takes 128 to 131 and 127 to 129; the pixel at column 0, row 0 leaves as
\* 129 and the other three as 131
C23_Divergence ==
    /\ opName = "curves"
    /\ opArgs = <<[initialCurves EXCEPT !.rgb = SCurve]>>
    /\ opInput = ImageDataOf(Gray2x2)
    /\ ToUint8Clamp(createLutFromPoints(SCurve)[128]) = 131
    /\ opOutput.px[1] = <<129, 129, 129, 255>>
    /\ opOutput.px[2] = <<131, 131, 131, 255>>
    /\ opOutput.px[3] = <<131, 131, 131, 255>>
    /\ opOutput.px[4] = <<131, 131, 131, 255>>

\* The dither of a Bayer cell, in thousandths
ditherOf(row, col) == (BAYER_MATRIX_8X8[row][col] * FX) \div 64 - FX \div 2

\* C30: with the red, green and blue curves all default the ordered dither
\* never changes a LUT index.  For every channel value v in 0..255 and every
\* Bayer cell, round(clamp(v + dither)) is v, and every output channel is
\* lutRgb of its input at every pixel position, so equal pixels leave equal
\* wherever they are.
C30_DitherKeepsIndex ==
    /\ \A v \in 0..255 : \A row, col \in 1..8 :
          roundIndex(v * FX + ditherOf(row, col)) = v
    /\ (/\ opName = "curves"
        /\ isDefault(opArgs[1].red)
        /\ isDefault(opArgs[1].green)
        /\ isDefault(opArgs[1].blue)) =>
          /\ \A i \in 1..Len(opInput.px) : \A c \in 1..3 :
                opOutput.px[i][c] =
                    ToUint8Clamp(createLutFromPoints(opArgs[1].rgb)[opInput.px[i][c]])
          /\ \A i, j \in 1..Len(opInput.px) :
                opInput.px[i] = opInput.px[j] => opOutput.px[i] = opOutput.px[j]

\* Four equal gray pixels under a clipping rgb curve and default channel
\* curves: the pixel in Bayer cell (0,0) leaves with another value than the
\* three in the cells beside and under it
C30_Divergence ==
    /\ opName = "curves"
    /\ opArgs = <<[initialCurves EXCEPT !.rgb = ClipCurve]>>
    /\ opInput = ImageDataOf(Gray2x2)
    /\ opOutput.px[2] = opOutput.px[3]
    /\ opOutput.px[3] = opOutput.px[4]
    /\ opOutput.px[1] # opOutput.px[2]
    /\ opOutput.px[1][1] =
           ToUint8Clamp(createLutFromPoints(ClipCurve)[opInput.px[1][1] - 1])

\* C24: the history invariant.  After any sequence of commits (with or
\* without overwrite), undo, redo, resetAll and image upload the stack holds
\* between 1 and MAX_HISTORY entries and the index is one of its positions
\* (0 .. length - 1 in the code, 1 .. length here), so the current state
\* exists.
C24_HistoryInvariant ==
    /\ 1 <= Len(history.stack)
    /\ Len(history.stack) <= MAX_HISTORY
    /\ 1 <= history.index
    /\ history.index <= Len(history.stack)
    /\ currentState \in Range(history.stack)

\* A commit on the last entry of a full stack: the stack is still full, its
\* oldest entry is the one that was second, and the new entry is current
C24_Witness ==
    /\ Len(history.stack) = MAX_HISTORY
    /\ history.index = MAX_HISTORY
    /\ handlerCalls = 1
    /\ history.stack[1].adjustments = adjustmentsOfCommit(2)
    /\ currentState.adjustments = adjustmentsOfCommit(MAX_HISTORY + 1)

\* C25: a commit without overwrite from the current entry keeps the entries
\* up to and including it, appends the new state and makes it current; only
\* the oldest entry is dropped, and only when the stack would be longer than
\* MAX_HISTORY.  The entries after the current one are gone, so redo is not
\* available after the commit, and the entry under the new one (where one
\* undo leads) is the state that was current before.
C25_CommitTruncatesRedo ==
    [][CommitChange =>
        LET old == history.stack
            i == history.index
            new == history'.stack
            kept == SubSeq(old, 1, i)
        IN  /\ new[Len(new)] \notin Range(old)
            /\ new = (IF i + 1 > MAX_HISTORY THEN Tail(kept) ELSE kept)
                         \o <<new[Len(new)]>>
            /\ history'.index = Len(new)
            /\ ~(history'.index < Len(new))
            /\ history'.index > 1
            /\ new[history'.index - 1] = old[i]
            /\ \A k \in (i + 1)..Len(old) : old[k] \in Range(new) => old[k] \in Range(kept)]_vars

\* A commit made after stepping back from the third entry: the stack is the
\* first two entries and the new one, which is current
C25_Witness ==
    /\ handlerCalls = 2
    /\ Len(history.stack) = 3
    /\ history.index = 3
    /\ history.stack[1].adjustments = adjustmentsOfCommit(1)
    /\ history.stack[2].adjustments = adjustmentsOfCommit(2)
    /\ history.stack[3].adjustments = adjustmentsOfCommit(MAX_HISTORY + 2)

\* C29: a destructive transform commits with overwrite.  The stack becomes
\* the entries before the current one followed by one new state, which has
\* no layers and the identity adjustments and is current; the entry that
\* was current is gone, so the entry under the new one (where one undo
\* leads) is the one that was before it, and with the first entry current
\* the new state is the only entry and undo is not available.
C29_TransformOverwrites ==
    [][ApplyDestructiveTransform =>
        LET old == history.stack
            i == history.index
            new == history'.stack
        IN  /\ new = SubSeq(old, 1, i - 1) \o <<new[Len(new)]>>
            /\ Len(new) = i
            /\ history'.index = i
            /\ new[i].layers = << >>
            /\ new[i].adjustments = initialAdjustmentsAt
            /\ deref(heap', new[i].adjustments) = initialAdjustments
            /\ new[i].baseImageSrc \in {Color2x1, Color3x3}
            /\ i > 1 => new[history'.index - 1] = old[i - 1]
            /\ i = 1 => ~(history'.index > 1)]_vars

\* A transform of the third of three entries: the first two are kept, the
\* third is the transformed image with no layers and the identity adjustments
C29_Witness ==
    /\ handlerCalls = 1
    /\ Len(history.stack) = 3
    /\ history.index = 3
    /\ history.stack[2].adjustments = adjustmentsOfCommit(2)
    /\ history.stack[3] = EditorStateOf(Color2x1, << >>, initialAdjustmentsAt)

\* The Adjustments value on screen
activeAdjustmentsValue ==
    IF liveAdjustments # Null THEN liveValue ELSE committed[history.index]

\* A handler has put another red curve on screen.  The handlers that edit
\* the red curve here are addPoint and Reset Curve, which call onCommit in
\* the same event (a drag, which commits on release, is on the rgb curve).
RedCurveEdited ==
    /\ handlerCalls' = handlerCalls + 1
    /\ liveAdjustments' # Null
    /\ liveValue'.curves.red # activeAdjustmentsValue.curves.red

\* C26: every curve edit that calls onCommit in the event that made it
\* (adding or removing a point, resetting the curve) ends in a history entry
\* that holds the edited curve, also when liveAdjustments was null before.
\* The entry can only come from the timer that handleCommitUpdate arms in
\* that event, so: the event arms one, and the adjustments it will commit
\* hold the curves the event has put on screen.
C26_CurveEditIsCommitted ==
    [][RedCurveEdited =>
        /\ Len(timers') = Len(timers) + 1
        /\ timers'[Len(timers')].kind = "commitLive"
        /\ deref(heap', timers'[Len(timers')].at).curves = liveValue'.curves]_vars

\* A point was added to the red curve of a newly opened image: the edited
\* curve is on screen as liveAdjustments, no commit is armed, and the
\* history still has its one entry with the default curve
C26_Divergence ==
    /\ handlerCalls = 1
    /\ liveAdjustments # Null
    /\ liveValue.curves.red = LiftCurve
    /\ timers = << >>
    /\ Len(history.stack) = 1
    /\ deref(heap, currentState.adjustments).curves.red = initialCurve


\* C27: The loading overlay never sticks: whenever applyAiAction,
\* handleGenerateAiMask or applyDestructiveTransform has set isLoading, it
\* returns to false later, whatever the outcome of the call.
C27_LoadingNeverSticks == isLoading ~> ~isLoading

\* C27: the transformed image failed to load, no call is waiting for
\* anything any more, and the overlay is still shown
C27_Divergence ==
    /\ isLoading
    /\ \A i \in 1..Len(tasks) : TaskEnded(tasks[i])
    /\ \E i \in 1..Len(tasks) : tasks[i].pc = "newImgFailed"

\* No commit timeout, render, frame or live redraw is still to come
LastRedrawFinished ==
    /\ commitTimers = << >>
    /\ ~effectPending
    /\ ~frameRequested
    /\ \A k \in 1..Len(redraws) : redraws[k]

\* C28: The processing indicator never sticks: once the last scheduled
\* redraw has finished isProcessing is false and no timeout of
\* startProcessing is left that could set it, and a shown indicator always
\* goes away.
C28_ProcessingNeverSticks ==
    /\ [](LastRedrawFinished => ~isProcessing /\ ~processingTimer)
    /\ (isProcessing ~> ~isProcessing)

\* C28: three commits have come and gone with redraws cancelled on the way,
\* and the indicator is off with nothing left to run
C28_Witness ==
    /\ LastRedrawFinished
    /\ handlerCalls = MaxProcessingCalls
    /\ Len(history.stack) > 2
    /\ redraws # << >>
    /\ ~isProcessing
====
